---- MODULE Spec2Model ----
(***************************************************************************)
(* A model of the storage server's request core: the swarm mapping         *)
(* (swarm.cpp), the channel cipher (channel_encryption.cpp), the client    *)
(* RPC handlers (request_handler.cpp) and the onion request pipeline       *)
(* (onion_processing.cpp, https_server.cpp).                               *)
(*                                                                         *)
(* 64-bit identifiers are scaled down to IdBits bits; all arithmetic on    *)
(* them is taken modulo 2^IdBits, as the code's is modulo 2^64.            *)
(***************************************************************************)
EXTENDS Integers, Sequences, FiniteSets, TLC

VARIABLES
    all_swarms,     \* get_swarm_by_pk: the roster argument
    pk,             \* get_swarm_by_pk: the user pubkey argument
    ret,            \* get_swarm_by_pk: the returned swarm id, or NoId
    cipher,         \* a ChannelEncryption exchange between two key holders
    inner,          \* process_inner_request: its argument and its result
    sn,             \* the service node: its roster, its swarm, its store
    rpc,            \* a client RPC handled by the RequestHandler
    onion,          \* an onion (or proxy) request and its reply in flight
    filter,         \* is_server_url_allowed: its argument and its result
    https,          \* one request of the HTTPSServer and its call_data
    conn,           \* a connection_t serving one storage test request
    events,         \* derive_swarm_events: the Swarm, the roster, the result
    roster,         \* Swarm::update_state in progress, and a reader of it
    applied,        \* apply_swarm_changes: the stored roster and the new one
    oxend,          \* process_oxend_request: its params, what it did
    session,        \* an outbound request and its client session
    combined,       \* parse_combined_payload: its bytes and what it returns
    server,         \* the HTTPSServer: its owner, its thread and its loop
    request,        \* process_client_req: a request string, what the call did
    limiter,        \* the snode bucket of the rate limiter
    own,            \* a Swarm and what it says is its own
    life            \* a connection_t from accept to its end

swarmVars == <<all_swarms, pk, ret>>

coreVars == <<all_swarms, pk, ret, cipher, inner, sn, rpc, onion>>

laterVars == <<filter, https, conn, events, roster>>

moreVars == <<applied, oxend, session, combined, server, request, limiter, own, life>>

vars == <<coreVars, laterVars, moreVars>>

(* "no swarm id returned yet" *)
NoId == 0 - 1

-----------------------------------------------------------------------------
(* Bounds *)

IdBits == 3
MaxSwarms == 2
MaxKeys == 2
MaxNonce == 2
MaxJsonKeys == 3

MaxHops == 2

MaxPieces == 3

(* TEST_RETRY_PERIOD in units of TEST_RETRY_INTERVAL *)
RetryPeriodTicks == 3

(* The service nodes of a roster, this node among them *)
MaxMembers == 3

(* apply_ips: the snodes of a roster, and the non-default addresses and *)
(* ports; address 0 stands for "0.0.0.0"                                *)
MaxSnodes == 2

MaxAddr == 2

-----------------------------------------------------------------------------
(* v, evaluated once, handed to F: a local variable of the code. *)
Bind(v, F(_)) == CHOOSE r \in { F(x) : x \in {v} } : TRUE

-----------------------------------------------------------------------------
(* swarm.cpp: unsigned arithmetic of swarm_id_t / uint64_t *)

RECURSIVE Pow2(_)
Pow2(n) == IF n = 0 THEN 1 ELSE 2 * Pow2(n - 1)

U64Mod == Pow2(IdBits)

U64 == 0 .. (U64Mod - 1)

USub(a, b) == ((a - b) + U64Mod) % U64Mod

UAdd(a, b) == (a + b) % U64Mod

RECURSIVE UXor(_, _, _)
UXor(a, b, n) ==
    IF n = 0 THEN 0
    ELSE (((a % 2) + (b % 2)) % 2) + 2 * UXor(a \div 2, b \div 2, n - 1)

INVALID_SWARM_ID == U64Mod - 1

MAX_ID == USub(INVALID_SWARM_ID, 1)

(* A user pubkey is the network tag followed by four 16-hex-char words;    *)
(* here each word is one IdBits-wide number.                               *)
PkWords == 4

hex_to_u64(upk) ==
    LET RECURSIVE Fold(_, _)
        Fold(i, res) ==
            IF i > Len(upk) THEN res
            ELSE Bind(UXor(res, upk[i], IdBits),
                      LAMBDA next : Fold(i + 1, next))
    IN Fold(1, 0)

(* The loop of get_swarm_by_pk over all_swarms, entry i onwards. *)
RECURSIVE SwarmLoop(_, _, _, _)
SwarmLoop(swarms, res, i, st) ==
    IF i > Len(swarms) THEN st
    ELSE
        LET id == swarms[i].swarm_id IN
        IF id = INVALID_SWARM_ID THEN SwarmLoop(swarms, res, i + 1, st)
        ELSE
            LET dist == IF id > res THEN USub(id, res) ELSE USub(res, id)
                closer == dist < st.cur_min
            IN Bind([cur_best     |-> IF closer THEN id ELSE st.cur_best,
                     cur_min      |-> IF closer THEN dist ELSE st.cur_min,
                     leftmost_id  |-> IF id < st.leftmost_id THEN id
                                      ELSE st.leftmost_id,
                     rightmost_id |-> IF id > st.rightmost_id THEN id
                                      ELSE st.rightmost_id],
                    LAMBDA next : SwarmLoop(swarms, res, i + 1, next))

AfterLoop(res, st) ==
    IF res > st.rightmost_id THEN
        LET dist == UAdd(USub(MAX_ID, res), st.leftmost_id) IN
        IF dist < st.cur_min THEN st.leftmost_id ELSE st.cur_best
    ELSE IF res < st.leftmost_id THEN
        LET dist == UAdd(res, USub(MAX_ID, st.rightmost_id)) IN
        IF dist < st.cur_min THEN st.rightmost_id ELSE st.cur_best
    ELSE st.cur_best

get_swarm_by_res(swarms, res) ==
    Bind(SwarmLoop(swarms, res, 1,
                   [cur_best     |-> INVALID_SWARM_ID,
                    cur_min      |-> INVALID_SWARM_ID,
                    leftmost_id  |-> INVALID_SWARM_ID,
                    rightmost_id |-> 0]),
         LAMBDA st : AfterLoop(res, st))

get_swarm_by_pk(swarms, upk) ==
    Bind(hex_to_u64(upk), LAMBDA res : get_swarm_by_res(swarms, res))

-----------------------------------------------------------------------------
(* Byte strings.  A byte string is a sequence of chunks: a 4-byte          *)
(* little-endian length, the output of one encryption, a JSON text, or     *)
(* other bytes.  Lengths count chunks.                                     *)

Exc == [ok |-> FALSE, val |-> <<>>]

(* A thrown exception where the value would have been a string. *)
ExcStr == [ok |-> FALSE, val |-> ""]

Ok(v) == [ok |-> TRUE, val |-> v]

RawChunk(x) == [tok |-> "raw", v |-> x]

-----------------------------------------------------------------------------
(* channel_encryption.cpp *)

(* X25519 key pairs are numbered; pubkey 0 is a low-order point, for which *)
(* crypto_scalarmult fails.                                                *)
LowOrderPoint == 0

EncryptTypes == {"aes_gcm", "aes_cbc", "xchacha20"}

WireTags == {"aes-gcm", "gcm", "aes-cbc", "cbc", "xchacha20", "bogus"}

calculate_shared_secret(seckey, pubkey) ==
    IF pubkey = LowOrderPoint THEN Exc ELSE Ok({seckey, pubkey})

parse_enc_type(enc_type) ==
    IF enc_type \in {"aes-gcm", "gcm"} THEN Ok("aes_gcm")
    ELSE IF enc_type \in {"aes-cbc", "cbc"} THEN Ok("aes_cbc")
    ELSE ExcStr

SymKey(kdf, s, first, second) ==
    [kdf |-> kdf, s |-> s, first |-> first, second |-> second]

derive_symmetric_key(seckey, pubkey) ==
    LET key == calculate_shared_secret(seckey, pubkey) IN
    IF ~key.ok THEN Exc ELSE Ok(SymKey("hmac-sha256-LOKI", key.val, 0, 0))

xchacha20_shared_key(local_pub, local_sec, remote_pub, sending) ==
    IF remote_pub = LowOrderPoint THEN Exc
    ELSE Ok(SymKey("blake2b", {local_sec, remote_pub},
                   IF sending THEN local_pub ELSE remote_pub,
                   IF sending THEN remote_pub ELSE local_pub))

CtChunk(alg, key, nonce, pt) ==
    [tok |-> "ct", alg |-> alg, key |-> key, nonce |-> nonce, pt |-> pt]

IsCt(bytes, alg) ==
    Len(bytes) = 1 /\ bytes[1].tok = "ct" /\ bytes[1].alg = alg

encrypt_cbc(self, plaintext_, pubKey, iv) ==
    LET sharedKey == calculate_shared_secret(self, pubKey) IN
    IF ~sharedKey.ok THEN Exc
    ELSE Ok(<<CtChunk("aes-256-cbc", SymKey("raw", sharedKey.val, 0, 0),
                      iv, plaintext_)>>)

encrypt_gcm(self, plaintext_, pubKey, nonce) ==
    LET derived_key == derive_symmetric_key(self, pubKey) IN
    IF ~derived_key.ok THEN Exc
    ELSE Ok(<<CtChunk("aes-256-gcm", derived_key.val, nonce, plaintext_)>>)

decrypt_gcm(self, ciphertext_, pubKey) ==
    LET derived_key == derive_symmetric_key(self, pubKey) IN
    IF ~derived_key.ok THEN Exc
    ELSE IF IsCt(ciphertext_, "aes-256-gcm")
            /\ ciphertext_[1].key = derived_key.val
         THEN Ok(ciphertext_[1].pt)
         ELSE Exc

(* CBC carries no tag: with the wrong key or foreign bytes the final block *)
(* either fails the padding check or unpads to garbage (pad_ok).           *)
decrypt_cbc(self, ciphertext_, pubKey, pad_ok) ==
    LET sharedKey == calculate_shared_secret(self, pubKey) IN
    IF ~sharedKey.ok THEN Exc
    ELSE IF IsCt(ciphertext_, "aes-256-cbc")
            /\ ciphertext_[1].key = SymKey("raw", sharedKey.val, 0, 0)
         THEN Ok(ciphertext_[1].pt)
         ELSE IF pad_ok /\ Len(ciphertext_) > 0
              THEN Ok(<<RawChunk("garbage")>>)
              ELSE Exc

(* e.what() of the exception that leaves decrypt_cbc when it fails *)
decrypt_cbc_what(self, ciphertext_, pubKey, pad_ok) ==
    IF ~calculate_shared_secret(self, pubKey).ok
    THEN "Shared key derivation failed (crypto_scalarmult)"
    ELSE "Could not finalise decryption"

encrypt_xchacha20(self, plaintext_, pubKey, nonce) ==
    LET key == xchacha20_shared_key(self, self, pubKey, TRUE) IN
    IF ~key.ok THEN Exc
    ELSE Ok(<<CtChunk("xchacha20-poly1305", key.val, nonce, plaintext_)>>)

decrypt_xchacha20(self, ciphertext_, pubKey) ==
    LET key == xchacha20_shared_key(self, self, pubKey, FALSE) IN
    IF ~key.ok THEN Exc
    ELSE IF IsCt(ciphertext_, "xchacha20-poly1305")
            /\ ciphertext_[1].key = key.val
         THEN Ok(ciphertext_[1].pt)
         ELSE Exc

ChannelEncryption_encrypt(self, type, plaintext, pubkey, nonce) ==
    CASE type = "aes_gcm" -> encrypt_gcm(self, plaintext, pubkey, nonce)
      [] type = "aes_cbc" -> encrypt_cbc(self, plaintext, pubkey, nonce)
      [] OTHER -> Exc

ChannelEncryption_decrypt(self, type, ciphertext, pubkey, pad_ok) ==
    CASE type = "aes_gcm" -> decrypt_gcm(self, ciphertext, pubkey)
      [] type = "aes_cbc" -> decrypt_cbc(self, ciphertext, pubkey, pad_ok)
      [] OTHER -> Exc

-----------------------------------------------------------------------------
(* JSON values (nlohmann::json).  A value carries its type tag t, its      *)
(* string s and its number n; a string that is the hex form of key k has   *)
(* s = "hex" and n = k.  An object is a function from the keys the code    *)
(* looks up to values, JAbsent where the key is missing.                   *)

JAbsent == [t |-> "absent", s |-> "", n |-> 0]
JStr(x) == [t |-> "str", s |-> x, n |-> 0]
JHex(k) == [t |-> "str", s |-> "hex", n |-> k]
JNum(x) == [t |-> "num", s |-> "", n |-> x]
JBool(b) == [t |-> "bool", s |-> "", n |-> IF b THEN 1 ELSE 0]

InnerKeys == {"headers", "json", "base64", "host", "target", "port",
              "protocol", "destination", "ephemeral_key", "enc_type",
              "hop_no"}

EmptyDoc == [k \in InnerKeys |-> JAbsent]

Le32(n) == [tok |-> "le32", n |-> n]

(* A JSON text: obj tells an object from any other JSON value. *)
JsonChunk(obj, doc) == [tok |-> "json", obj |-> obj, doc |-> doc]

Has(j, key) == j.obj /\ j.doc[key].t # "absent"

(* pubkey::from_hex: throws unless the string is the hex form of a key. *)
from_hex_ok(v) == v.t = "str" /\ v.s = "hex"

from_hex(v) == v.n

(* static_cast<uint16_t> of get<uint16_t>() *)
U16Mod == 65536

-----------------------------------------------------------------------------
(* onion_processing.cpp *)

ParseFail == [ok |-> FALSE, ciphertext |-> <<>>,
              json |-> JsonChunk(FALSE, EmptyDoc)]

(* | <4 bytes>: N | <N bytes>: ciphertext | <rest>: json as utf8 |         *)
(* Bytes that are not a length prefix decode to a length that does not     *)
(* fit the payload.                                                        *)
parse_combined_payload(payload) ==
    IF Len(payload) < 1 THEN ParseFail
    ELSE IF payload[1].tok # "le32" THEN ParseFail
    ELSE
        LET n == payload[1].n
            rest == Tail(payload)
        IN
        IF Len(rest) < n THEN ParseFail
        ELSE
            LET ciphertext == SubSeq(rest, 1, n)
                js == SubSeq(rest, n + 1, Len(rest))
            IN
            IF Len(js) = 1 /\ js[1].tok = "json"
            THEN [ok |-> TRUE, ciphertext |-> ciphertext, json |-> js[1]]
            ELSE ParseFail

NoInfo ==
    [kind |-> "none", body |-> <<>>, json |-> FALSE, base64 |-> TRUE,
     payload |-> <<>>, host |-> "", port |-> 0, protocol |-> "",
     target |-> "", ephemeral_key |-> 0, enc_type |-> "aes_gcm",
     next_node |-> 0, error |-> ""]

ErrorInfo(e) == [NoInfo EXCEPT !.kind = "Error", !.error = e]

FinalDestinationInfo(body, json, b64) ==
    [NoInfo EXCEPT !.kind = "FinalDestination", !.body = body,
                   !.json = json, !.base64 = b64]

RelayToServerInfo(payload, host, port, protocol, target) ==
    [NoInfo EXCEPT !.kind = "RelayToServer", !.payload = payload,
                   !.host = host, !.port = port, !.protocol = protocol,
                   !.target = target]

RelayToNodeInfo(ctext, eph_key, enc_type, next) ==
    [NoInfo EXCEPT !.kind = "RelayToNode", !.body = ctext,
                   !.ephemeral_key = eph_key, !.enc_type = enc_type,
                   !.next_node = next]

FinalBranch(plaintext, p) ==
    LET j == p.json
        d == j.doc
    IN
    IF \/ (Has(j, "json") /\ d["json"].t # "bool")
       \/ (Has(j, "base64") /\ d["base64"].t # "bool")
    THEN ErrorInfo("INVALID_JSON")
    ELSE FinalDestinationInfo(
             p.ciphertext,
             IF Has(j, "json") THEN d["json"].n = 1 ELSE NoInfo.json,
             IF Has(j, "base64") THEN d["base64"].n = 1 ELSE NoInfo.base64)

(* The relay-to-server branch carrying the inner ciphertext onward *)
ServerBranch_ciphertext(plaintext, p) ==
    LET j == p.json
        d == j.doc
    IN
    IF \/ d["host"].t # "str"
       \/ d["target"].t # "str"
       \/ (Has(j, "port") /\ d["port"].t \notin {"num", "bool"})
       \/ (Has(j, "protocol") /\ d["protocol"].t # "str")
    THEN ErrorInfo("INVALID_JSON")
    ELSE RelayToServerInfo(
             p.ciphertext, d["host"].s,
             IF Has(j, "port") THEN d["port"].n % U16Mod ELSE 443,
             IF Has(j, "protocol") THEN d["protocol"].s ELSE "https",
             d["target"].s)

ServerBranch(plaintext, p) ==
    LET j == p.json
        d == j.doc
    IN
    IF \/ d["host"].t # "str"
       \/ d["target"].t # "str"
       \/ (Has(j, "port") /\ d["port"].t \notin {"num", "bool"})
       \/ (Has(j, "protocol") /\ d["protocol"].t # "str")
    THEN ErrorInfo("INVALID_JSON")
    ELSE RelayToServerInfo(
             plaintext, d["host"].s,
             IF Has(j, "port") THEN d["port"].n % U16Mod ELSE 443,
             IF Has(j, "protocol") THEN d["protocol"].s ELSE "https",
             d["target"].s)

NodeBranch(plaintext, p) ==
    LET j == p.json
        d == j.doc
    IN
    IF \/ ~j.obj
       \/ ~from_hex_ok(d["destination"])
       \/ ~from_hex_ok(d["ephemeral_key"])
       \/ (Has(j, "enc_type")
           /\ (d["enc_type"].t # "str"
               \/ ~parse_enc_type(d["enc_type"].s).ok))
    THEN ErrorInfo("INVALID_JSON")
    ELSE RelayToNodeInfo(
             p.ciphertext, from_hex(d["ephemeral_key"]),
             IF Has(j, "enc_type")
             THEN parse_enc_type(d["enc_type"].s).val ELSE "aes_gcm",
             from_hex(d["destination"]))

(* process_inner_request with host looked up before headers. *)
process_inner_request_hostfirst(plaintext) ==
    LET p == parse_combined_payload(plaintext) IN
    IF ~p.ok THEN ErrorInfo("INVALID_JSON")
    ELSE IF Has(p.json, "host") THEN ServerBranch(plaintext, p)
    ELSE IF Has(p.json, "headers") THEN FinalBranch(plaintext, p)
    ELSE NodeBranch(plaintext, p)

process_inner_request(plaintext) ==
    LET p == parse_combined_payload(plaintext) IN
    IF ~p.ok THEN ErrorInfo("INVALID_JSON")
    ELSE IF Has(p.json, "headers") THEN FinalBranch(plaintext, p)
    ELSE IF Has(p.json, "host") THEN ServerBranch(plaintext, p)
    ELSE NodeBranch(plaintext, p)

-----------------------------------------------------------------------------
(* swarm.cpp / service_node: lookups by user pubkey *)

Swarm_is_pubkey_for_us(node, upk) ==
    node.cur_swarm_id_ = get_swarm_by_pk(node.all_valid_swarms_, upk)

(* ServiceNode::get_snodes_by_pk: the members of the swarm that            *)
(* get_swarm_by_pk names, nothing when no swarm of the roster has that id. *)
get_snodes_by_pk(node, upk) ==
    LET swarm_id == get_swarm_by_pk(node.all_valid_swarms_, upk)
        hits == { i \in 1..Len(node.all_valid_swarms_) :
                    node.all_valid_swarms_[i].swarm_id = swarm_id }
    IN
    IF hits = {} THEN <<>>
    ELSE node.all_valid_swarms_[CHOOSE i \in hits :
                                    \A o \in hits : i <= o].snodes

-----------------------------------------------------------------------------
(* request_handler.cpp *)

MAX_MESSAGE_BODY == 102400

(* The parameters of a request: which fields are present, which are     *)
(* strings, and what the validators not shown here make of them.        *)
PkOf(h) == [i \in 1..PkWords |-> IF i = 1 THEN h ELSE 0]

NoParams ==
    [pubKey |-> [present |-> FALSE, str |-> FALSE, created |-> FALSE,
                 words |-> PkOf(0)],
     ttl |-> [present |-> FALSE, str |-> FALSE, valid |-> FALSE],
     timestamp |-> [present |-> FALSE, str |-> FALSE, valid |-> FALSE],
     data |-> [present |-> FALSE, str |-> FALSE, size |-> 0],
     lastHash |-> [present |-> FALSE, str |-> FALSE]]

Response(status, kind, text, snodes) ==
    [status |-> status, kind |-> kind, text |-> text, snodes |-> snodes,
     bytes |-> <<>>]

TextResponse(status, text) == Response(status, "text", text, <<>>)

(* A json exception leaving the handler: no Response is returned. *)
Thrown == Response(0, "exception", "", <<>>)

handle_wrong_swarm(node, pubKey) ==
    Response(421, "snodes", "", get_snodes_by_pk(node, pubKey))

Handled(res, stored, retrieved) ==
    [res |-> res, stored |-> stored, retrieved |-> retrieved]

(* process_store with the ttl check moved in front of the swarm check. *)
process_store_ttlfirst(params, node, outcome) ==
    IF \E f \in {"pubKey", "ttl", "timestamp", "data"} : ~params[f].present
    THEN Handled(TextResponse(400, "invalid json: no field"), FALSE, FALSE)
    ELSE IF ~params.ttl.str \/ ~params.timestamp.str \/ ~params.data.str
            \/ ~params.pubKey.str
    THEN Handled(Thrown, FALSE, FALSE)
    ELSE IF ~params.pubKey.created
    THEN Handled(TextResponse(400, "Pubkey must be 66 characters long"),
                 FALSE, FALSE)
    ELSE IF params.data.size > MAX_MESSAGE_BODY
    THEN Handled(TextResponse(400, "Message body exceeds maximum"),
                 FALSE, FALSE)
    ELSE IF ~params.ttl.valid
    THEN Handled(TextResponse(403, "Provided TTL is not valid."),
                 FALSE, FALSE)
    ELSE IF ~Swarm_is_pubkey_for_us(node, params.pubKey.words)
    THEN Handled(handle_wrong_swarm(node, params.pubKey.words), FALSE, FALSE)
    ELSE Handled(Response(200, "json", "difficulty", <<>>), TRUE, FALSE)

(* process_store without the limit on the size of data *)
process_store_anysize(params, node, outcome) ==
    IF \E f \in {"pubKey", "ttl", "timestamp", "data"} : ~params[f].present
    THEN Handled(TextResponse(400, "invalid json: no field"), FALSE, FALSE)
    ELSE IF ~params.ttl.str \/ ~params.timestamp.str \/ ~params.data.str
            \/ ~params.pubKey.str
    THEN Handled(Thrown, FALSE, FALSE)
    ELSE IF ~params.pubKey.created
    THEN Handled(TextResponse(400, "Pubkey must be 66 characters long"),
                 FALSE, FALSE)
    ELSE IF ~Swarm_is_pubkey_for_us(node, params.pubKey.words)
    THEN Handled(handle_wrong_swarm(node, params.pubKey.words), FALSE, FALSE)
    ELSE IF ~params.ttl.valid
    THEN Handled(TextResponse(403, "Provided TTL is not valid."),
                 FALSE, FALSE)
    ELSE IF ~params.timestamp.valid
    THEN Handled(TextResponse(406, "Timestamp error: check your clock"),
                 FALSE, FALSE)
    ELSE IF outcome = "throw"
    THEN Handled(TextResponse(500, "what"), TRUE, FALSE)
    ELSE IF outcome = "fail"
    THEN Handled(TextResponse(503, "Service node is initializing"),
                 TRUE, FALSE)
    ELSE Handled(Response(200, "json", "difficulty", <<>>), TRUE, FALSE)

process_store(params, node, outcome) ==
    IF ~params.pubKey.present
    THEN Handled(TextResponse(400, "invalid json: no pubKey field"),
                 FALSE, FALSE)
    ELSE IF ~params.ttl.present
    THEN Handled(TextResponse(400, "invalid json: no ttl field"),
                 FALSE, FALSE)
    ELSE IF ~params.timestamp.present
    THEN Handled(TextResponse(400, "invalid json: no timestamp field"),
                 FALSE, FALSE)
    ELSE IF ~params.data.present
    THEN Handled(TextResponse(400, "invalid json: no data field"),
                 FALSE, FALSE)
    ELSE IF ~params.ttl.str \/ ~params.timestamp.str \/ ~params.data.str
            \/ ~params.pubKey.str
    THEN Handled(Thrown, FALSE, FALSE)
    ELSE IF ~params.pubKey.created
    THEN Handled(TextResponse(400, "Pubkey must be 66 characters long"),
                 FALSE, FALSE)
    ELSE IF params.data.size > MAX_MESSAGE_BODY
    THEN Handled(TextResponse(400, "Message body exceeds maximum"),
                 FALSE, FALSE)
    ELSE IF ~Swarm_is_pubkey_for_us(node, params.pubKey.words)
    THEN Handled(handle_wrong_swarm(node, params.pubKey.words), FALSE, FALSE)
    ELSE IF ~params.ttl.valid
    THEN Handled(TextResponse(403, "Provided TTL is not valid."),
                 FALSE, FALSE)
    ELSE IF ~params.timestamp.valid
    THEN Handled(TextResponse(406, "Timestamp error: check your clock"),
                 FALSE, FALSE)
    ELSE IF outcome = "throw"
    THEN Handled(TextResponse(500, "what"), TRUE, FALSE)
    ELSE IF outcome = "fail"
    THEN Handled(TextResponse(503, "Service node is initializing"),
                 TRUE, FALSE)
    ELSE Handled(Response(200, "json", "difficulty", <<>>), TRUE, FALSE)

process_retrieve(params, node, outcome) ==
    IF ~params.pubKey.present
    THEN Handled(TextResponse(400, "invalid json: no pubKey field"),
                 FALSE, FALSE)
    ELSE IF ~params.lastHash.present
    THEN Handled(TextResponse(400, "invalid json: no lastHash field"),
                 FALSE, FALSE)
    ELSE IF ~params.pubKey.str
    THEN Handled(Thrown, FALSE, FALSE)
    ELSE IF ~params.pubKey.created
    THEN Handled(TextResponse(400, "Pubkey must be 66 characters long"),
                 FALSE, FALSE)
    ELSE IF ~Swarm_is_pubkey_for_us(node, params.pubKey.words)
    THEN Handled(handle_wrong_swarm(node, params.pubKey.words), FALSE, FALSE)
    ELSE IF ~params.lastHash.str
    THEN Handled(Thrown, FALSE, FALSE)
    ELSE IF outcome # "ok"
    THEN Handled(TextResponse(500, "Could not retrieve messages"),
                 FALSE, TRUE)
    ELSE Handled(Response(200, "json", "messages", <<>>), FALSE, TRUE)

-----------------------------------------------------------------------------
(* request_handler.cpp: the client request envelope and the reply wrapper *)

(* oxenmq::to_base64 and its inverse on the client side *)
to_base64(bytes) == <<[tok |-> "b64", of |-> bytes]>>

from_base64(bytes) ==
    IF Len(bytes) = 1 /\ bytes[1].tok = "b64" THEN Ok(bytes[1].of) ELSE Exc

BytesResponse(status, bytes) ==
    [status |-> status, kind |-> "bytes", text |-> "", snodes |-> <<>>,
     bytes |-> bytes]

(* json{{"status", res.status()}, {"body", res.message()}}.dump() *)
ResJson(res) == [tok |-> "resjson", status |-> res.status, body |-> res]

(* A client request text: parses tells valid JSON from a discarded parse,  *)
(* obj an object from another JSON value, pkind what "params" holds.       *)
RpcChunk(parses, obj, method, pkind, params) ==
    [tok |-> "rpc", parses |-> parses, obj |-> obj, method |-> method,
     pkind |-> pkind, params |-> params]

Discarded == RpcChunk(FALSE, FALSE, JAbsent, "absent", NoParams)

json_parse(req_json) ==
    IF Len(req_json) = 1 /\ req_json[1].tok = "rpc" /\ req_json[1].parses
    THEN req_json[1] ELSE Discarded

(* What a call of process_client_req did: the replies handed to cb in      *)
(* order, whether an exception left the call, whether the process died.    *)
Called(cbs, stored, retrieved, exc, crashed) ==
    [cbs |-> cbs, stored |-> stored, retrieved |-> retrieved,
     exc |-> exc, crashed |-> crashed]

(* The method handlers of process_client_req reached by the requests       *)
(* exercised here: store, retrieve, and the unknown-method branch.         *)
RunMethod(method_name, params, cbs, node, outcome) ==
    IF method_name = "store" THEN
        Bind(process_store(params, node, outcome), LAMBDA h :
             IF h.res = Thrown THEN Called(cbs, FALSE, FALSE, TRUE, FALSE)
             ELSE Called(Append(cbs, h.res), h.stored, FALSE, FALSE, FALSE))
    ELSE IF method_name = "retrieve" THEN
        Bind(process_retrieve(params, node, outcome), LAMBDA h :
             IF h.res = Thrown THEN Called(cbs, FALSE, FALSE, TRUE, FALSE)
             ELSE Called(Append(cbs, h.res), FALSE, h.retrieved,
                         FALSE, FALSE))
    ELSE Called(Append(cbs, TextResponse(400, "no method")),
                FALSE, FALSE, FALSE, FALSE)

(* Reading through the end iterator of an object is undefined: the call    *)
(* throws, the process dies, or it goes on with whatever it read (ub).     *)
Dispatch(body, method_name, cbs, node, outcome, ub) ==
    LET c3 == IF body.pkind # "obj"
              THEN Append(cbs, TextResponse(400,
                                   "invalid json: no params field"))
              ELSE cbs
        known == method_name \in {"store", "retrieve"}
    IN
    IF known /\ body.pkind = "absent" THEN
        CASE ub = "throw" -> Called(c3, FALSE, FALSE, TRUE, FALSE)
          [] ub = "crash" -> Called(c3, FALSE, FALSE, FALSE, TRUE)
          [] OTHER -> RunMethod(method_name, NoParams, c3, node, outcome)
    ELSE RunMethod(method_name,
                   IF body.pkind = "obj" THEN body.params ELSE NoParams,
                   c3, node, outcome)

Envelope(body, node, outcome, ub) ==
    LET c1 == IF ~body.parses
              THEN <<TextResponse(400, "invalid json")>> ELSE <<>>
        c2 == IF ~body.obj \/ body.method.t # "str"
              THEN Append(c1, TextResponse(400,
                                  "invalid json: no method field"))
              ELSE c1
    IN
    IF ~body.obj
    THEN Called(c2, FALSE, FALSE, TRUE, FALSE)        \* invalid_iterator
    ELSE IF body.method.t = "absent" THEN
        CASE ub = "throw" -> Called(c2, FALSE, FALSE, TRUE, FALSE)
          [] ub = "crash" -> Called(c2, FALSE, FALSE, FALSE, TRUE)
          [] OTHER -> Dispatch(body, "", c2, node, outcome, ub)
    ELSE IF body.method.t # "str"
    THEN Called(c2, FALSE, FALSE, TRUE, FALSE)        \* type_error
    ELSE Dispatch(body, body.method.s, c2, node, outcome, ub)

process_client_req(req_json, node, outcome, ub) ==
    Bind(json_parse(req_json),
         LAMBDA body : Envelope(body, node, outcome, ub))

ExcRes == [ok |-> FALSE, val |-> Thrown]

(* The ciphertext that encrypt returns is not kept: the string that is     *)
(* base64-encoded is the one declared empty the line before.               *)
wrap_proxy_response(self, res, client_key, enc_type, nonce) ==
    LET res_body == <<ResJson(res)>>
        encrypted == ChannelEncryption_encrypt(self, enc_type, res_body,
                                               client_key, nonce)
        ciphertext == <<>>
    IN
    IF ~encrypted.ok THEN ExcRes
    ELSE [ok |-> TRUE, val |-> BytesResponse(200, to_base64(ciphertext))]

process_onion_exit(body, node, env) ==
    IF ~env.ready
    THEN Called(<<TextResponse(503, "Snode not ready")>>,
                FALSE, FALSE, FALSE, FALSE)
    ELSE process_client_req(body, node, env.outcome, env.ub)

-----------------------------------------------------------------------------
(* onion_processing.cpp: one hop of an onion request *)

OnionRequestMetadata(ephem_key, enc_type) ==
    [ephem_key |-> ephem_key, enc_type |-> enc_type]

(* One use of the channel cipher. *)
Use(op, type) == [op |-> op, type |-> type]

(* One call of wrap_proxy_response: its arguments and what it returned. *)
WrapCall(why, res, client_key, enc_type, out) ==
    [why |-> why, res |-> res, client_key |-> client_key,
     enc_type |-> enc_type, out |-> out]

(* What one hop did with a request: the replies handed to data.cb, the     *)
(* calls of wrap_proxy_response, the uses of the cipher, and what it sent  *)
(* on (to the next snode, or to an external server).                       *)
NoOutcome ==
    [cbs |-> <<>>, wraps |-> <<>>, uses |-> {}, forward |-> FALSE,
     url |-> FALSE, payload |-> <<>>,
     data |-> OnionRequestMetadata(0, "aes_gcm"), dest |-> 0,
     exc |-> FALSE, crashed |-> FALSE, stored |-> FALSE,
     retrieved |-> FALSE, info |-> NoInfo,
     meta |-> OnionRequestMetadata(0, "aes_gcm"),
     layer |-> <<>>]

process_ciphertext_v2(self, ciphertext, ephem_key, enc_type, pad_ok) ==
    Bind(ChannelEncryption_decrypt(self, enc_type, ciphertext, ephem_key,
                                   pad_ok),
         LAMBDA plaintext :
             IF ~plaintext.ok THEN ErrorInfo("INVALID_CIPHERTEXT")
             ELSE process_inner_request(plaintext.val))

(* data.cb(wrap_proxy_response(res, data.ephem_key, data.enc_type)) for    *)
(* each res of cbs; an exception of the first wrap ends the call.          *)
Wrapped(why, cbs, data, w, o) ==
    LET thrown == Len(w) > 0 /\ ~w[1].ok
        n == IF thrown THEN 1 ELSE Len(w)
    IN
    [o EXCEPT
       !.cbs = IF thrown THEN <<>> ELSE [i \in 1..n |-> w[i].val],
       !.wraps = [i \in 1..n |->
                     WrapCall(why, cbs[i], data.ephem_key, data.enc_type,
                              w[i].val)],
       !.uses = @ \cup (IF Len(w) > 0 THEN {Use("encrypt", data.enc_type)}
                        ELSE {}),
       !.exc = @ \/ thrown]

WrapEach(self, why, cbs, data, nonce, o) ==
    Bind([i \in 1..Len(cbs) |->
             wrap_proxy_response(self, cbs[i], data.ephem_key,
                                 data.enc_type, nonce)],
         LAMBDA w : Wrapped(why, cbs, data, w, o))

process_onion_req_FinalDestination(self, info, data, node, env) ==
    Bind(process_onion_exit(info.body, node, env), LAMBDA c :
         WrapEach(self, "exit", c.cbs, data, env.nonce,
                  [NoOutcome EXCEPT !.exc = c.exc, !.crashed = c.crashed,
                                    !.stored = c.stored,
                                    !.retrieved = c.retrieved]))

(* The relay with the metadata left as it came in. *)
process_onion_req_RelayToNode_stale(self, info, data, node, env) ==
    IF info.next_node \notin env.known
    THEN [NoOutcome EXCEPT
            !.cbs = <<TextResponse(502, "Next node not found")>>]
    ELSE [NoOutcome EXCEPT !.forward = TRUE, !.payload = info.body,
                           !.dest = info.next_node, !.data = data]

process_onion_req_RelayToNode(self, info, data, node, env) ==
    IF info.next_node \notin env.known
    THEN [NoOutcome EXCEPT
            !.cbs = <<TextResponse(502, "Next node not found")>>]
    ELSE [NoOutcome EXCEPT
            !.forward = TRUE, !.payload = info.body,
            !.dest = info.next_node,
            !.data = OnionRequestMetadata(info.ephemeral_key,
                                          info.enc_type)]

(* http::from_code: the response code of an integer status *)
http_from_code(code) == code

(* on_response taking a status part that is no integer for success *)
on_response_lenient(success, data) ==
    IF ~success THEN TextResponse(504, "Request time out")
    ELSE IF Len(data) < 2
    THEN TextResponse(500, "Invalid response from snode")
    ELSE [data[2].res EXCEPT
            !.status = IF data[1].int THEN http_from_code(data[1].code)
                       ELSE 200]

(* The upstream reply as the relay hands it to its own caller. *)
on_response(success, data) ==
    IF ~success THEN TextResponse(504, "Request time out")
    ELSE IF Len(data) < 2
    THEN TextResponse(500, "Invalid response from snode")
    ELSE [data[2].res EXCEPT
            !.status = IF data[1].int THEN http_from_code(data[1].code)
                       ELSE 500]

Chars(s) ==
    CASE s = "/loki/" ->
            <<"/", "l", "o", "k", "i", "/">>
      [] s = "/oxen/" ->
            <<"/", "o", "x", "e", "n", "/">>
      [] s = "/lsrpc" ->
            <<"/", "l", "s", "r", "p", "c">>
      [] s = "/loki/v3/lsrpc" ->
            <<"/", "l", "o", "k", "i", "/", "v", "3", "/", "l", "s", "r", "p", "c">>
      [] s = "/loki/lsrpc" ->
            <<"/", "l", "o", "k", "i", "/", "l", "s", "r", "p", "c">>
      [] s = "/loki/v3/lsrpc?foo=bar" ->
            <<"/", "l", "o", "k", "i", "/", "v", "3", "/", "l", "s", "r", "p", "c", "?", "f", "o", "o", "=", "b", "a", "r">>
      [] s = "/evil" ->
            <<"/", "e", "v", "i", "l">>
      [] s = "/loki" ->
            <<"/", "l", "o", "k", "i">>
      [] s = "lsrpc" ->
            <<"l", "s", "r", "p", "c">>
      [] s = "v3" ->
            <<"v", "3">>
      [] s = "?" ->
            <<"?">>
      [] s = "/not_loki/" ->
            <<"/", "n", "o", "t", "_", "l", "o", "k", "i", "/">>
      [] OTHER -> <<>>

starts_with(str, prefix) ==
    Len(str) >= Len(prefix) /\ SubSeq(str, 1, Len(prefix)) = prefix

ends_with(str, suffix) ==
    /\ Len(str) >= Len(suffix)
    /\ SubSeq(str, Len(str) - Len(suffix) + 1, Len(str)) = suffix

(* The filter without the query-string test. *)
is_server_url_allowed_noquery(url) ==
    /\ starts_with(url, Chars("/loki/")) \/ starts_with(url, Chars("/oxen/"))
    /\ ends_with(url, Chars("/lsrpc"))

is_server_url_allowed(url) ==
    /\ starts_with(url, Chars("/loki/")) \/ starts_with(url, Chars("/oxen/"))
    /\ ends_with(url, Chars("/lsrpc"))
    /\ ~\E i \in 1..Len(url) : url[i] = "?"

(* The relay-to-server handler without the url filter. *)
process_onion_req_RelayToServer_unfiltered(self, info, data, node, env) ==
    [NoOutcome EXCEPT !.url = TRUE, !.payload = info.payload]

process_onion_req_RelayToServer(self, info, data, node, env) ==
    IF is_server_url_allowed(Chars(info.target))
    THEN [NoOutcome EXCEPT !.url = TRUE, !.payload = info.payload]
    ELSE WrapEach(self, "url", <<TextResponse(400, "Invalid url")>>, data,
                  env.nonce, NoOutcome)

(* The error handler with every decode failure wrapped. *)
process_onion_req_Error_wrapall(self, info, data, node, env) ==
    WrapEach(self, "error", <<TextResponse(400, "Invalid json")>>, data,
             env.nonce, NoOutcome)

process_onion_req_Error(self, info, data, node, env) ==
    IF info.error = "INVALID_CIPHERTEXT"
    THEN [NoOutcome EXCEPT
            !.cbs = <<TextResponse(400, "Invalid ciphertext")>>]
    ELSE WrapEach(self, "error", <<TextResponse(400, "Invalid json")>>,
                  data, env.nonce, NoOutcome)

Visit(self, ciphertext, info, data, node, env) ==
    LET o == CASE info.kind = "FinalDestination" ->
                    process_onion_req_FinalDestination(self, info, data,
                                                       node, env)
               [] info.kind = "RelayToNode" ->
                    process_onion_req_RelayToNode(self, info, data,
                                                  node, env)
               [] info.kind = "RelayToServer" ->
                    process_onion_req_RelayToServer(self, info, data,
                                                    node, env)
               [] OTHER ->
                    process_onion_req_Error(self, info, data, node, env)
    IN
    [o EXCEPT !.uses = @ \cup {Use("decrypt", data.enc_type)},
              !.info = info, !.meta = data, !.layer = ciphertext]

process_onion_req(self, ciphertext, data, node, env) ==
    IF ~env.ready
    THEN [NoOutcome EXCEPT
            !.cbs = <<TextResponse(503, "Snode not ready")>>]
    ELSE Bind(process_ciphertext_v2(self, ciphertext, data.ephem_key,
                                    data.enc_type, env.pad_ok),
              LAMBDA info : Visit(self, ciphertext, info, data, node, env))

-----------------------------------------------------------------------------
(* https_server.cpp: the onion entry point *)

Caught(o) ==
    IF o.exc
    THEN [o EXCEPT !.exc = FALSE,
                   !.cbs = Append(@, TextResponse(400,
                               "Error parsing onion request"))]
    ELSE o

ParsedFrame(self, p, node, env) ==
    LET d == p.json.doc IN
    IF \/ ~p.ok
       \/ ~p.json.obj
       \/ ~from_hex_ok(d["ephemeral_key"])
       \/ (Has(p.json, "enc_type")
           /\ (d["enc_type"].t # "str"
               \/ ~parse_enc_type(d["enc_type"].s).ok))
       \/ (Has(p.json, "hop_no") /\ d["hop_no"].t \notin {"num", "bool"})
    THEN [NoOutcome EXCEPT
            !.cbs = <<TextResponse(400, "Error parsing onion request")>>]
    ELSE Bind(OnionRequestMetadata(
                  from_hex(d["ephemeral_key"]),
                  IF Has(p.json, "enc_type")
                  THEN parse_enc_type(d["enc_type"].s).val
                  ELSE "aes_gcm"),
              LAMBDA onion_ :
                  Bind(process_onion_req(self, p.ciphertext, onion_, node,
                                         env),
                       LAMBDA o : Caught(o)))

process_onion_req_v2(self, body, node, env) ==
    Bind(parse_combined_payload(body),
         LAMBDA p : ParsedFrame(self, p, node, env))

-----------------------------------------------------------------------------
(* request_handler.cpp: the legacy proxy exit *)

(* The request of a proxy client: a JSON object with a string "body". *)
ProxyChunk(ok, body) == [tok |-> "proxyreq", ok |-> ok, body |-> body]

(* fmt::format("Invalid ciphertext: {}", e.what()) *)
InvalidCiphertextMsg(what) ==
    IF what = "Shared key derivation failed (crypto_scalarmult)"
    THEN "Invalid ciphertext: Shared key derivation failed (crypto_scalarmult)"
    ELSE "Invalid ciphertext: Could not finalise decryption"

ProxyRequest(self, plaintext, what, data, node, env) ==
    LET dec == [NoOutcome EXCEPT !.uses = {Use("decrypt", "aes_cbc")}] IN
    IF ~plaintext.ok
    THEN WrapEach(self, "proxy",
                  <<TextResponse(400, InvalidCiphertextMsg(what))>>,
                  data, env.nonce, dec)
    ELSE IF ~(/\ Len(plaintext.val) = 1
              /\ plaintext.val[1].tok = "proxyreq"
              /\ plaintext.val[1].ok)
    THEN WrapEach(self, "proxy",
                  <<TextResponse(400, "JSON parsing error: what")>>,
                  data, env.nonce, dec)
    ELSE Bind(process_client_req(plaintext.val[1].body, node, env.outcome,
                                 env.ub),
              LAMBDA c :
                  WrapEach(self, "proxy", c.cbs, data, env.nonce,
                           [dec EXCEPT !.exc = c.exc,
                                       !.crashed = c.crashed,
                                       !.stored = c.stored,
                                       !.retrieved = c.retrieved]))

process_proxy_exit(self, client_key, payload, node, env) ==
    IF ~env.ready
    THEN WrapEach(self, "proxy", <<TextResponse(503, "Snode not ready")>>,
                  OnionRequestMetadata(client_key, "aes_cbc"), env.nonce,
                  NoOutcome)
    ELSE Bind(decrypt_cbc(self, payload, client_key, env.pad_ok),
              LAMBDA plaintext :
                  ProxyRequest(self, plaintext,
                               decrypt_cbc_what(self, payload, client_key,
                                                env.pad_ok),
                               OnionRequestMetadata(client_key, "aes_cbc"),
                               node, env))

-----------------------------------------------------------------------------
(* Input sets *)

KeyIds == 1..MaxKeys

Nonces == 1..MaxNonce

Plaintexts == { <<>>, <<RawChunk("hello")>>,
                <<RawChunk("hello"), RawChunk("world")>> }

SwarmIdSeqs ==
    UNION { { s \in [1..n -> U64] : \A i, j \in 1..n : i # j => s[i] # s[j] }
            : n \in 0..MaxSwarms }

Rosters ==
    { [i \in 1..Len(s) |-> [swarm_id |-> s[i], snodes |-> <<>>]]
      : s \in SwarmIdSeqs }

UserPubkeys ==
    { [i \in 1..PkWords |-> IF i = 1 THEN a ELSE IF i = 2 THEN b ELSE 0]
      : a \in U64, b \in {0, INVALID_SWARM_ID} }

ValidIds(swarms) ==
    { swarms[i].swarm_id : i \in 1..Len(swarms) } \ {INVALID_SWARM_ID}

(* The values tried for each key of the inner JSON. *)
InnerVals(key) ==
    CASE key = "headers" -> {JStr(""), JNum(1)}
      [] key = "json" -> {JBool(TRUE), JStr("yes")}
      [] key = "base64" -> {JBool(FALSE), JStr("no")}
      [] key = "host" -> {JStr("example.com"), JNum(1)}
      [] key = "target" -> {JStr("/loki/v3/lsrpc"), JNum(1)}
      [] key = "port" -> {JNum(80), JNum(U16Mod + 80), JStr("80")}
      [] key = "protocol" -> {JStr("http"), JNum(1)}
      [] key = "destination" -> {JHex(1), JStr("zz")}
      [] key = "ephemeral_key" -> {JHex(2), JStr("zz")}
      [] key = "enc_type" -> {JStr("aes-gcm"), JStr("aes-cbc"),
                              JStr("xchacha20"), JNum(1)}

(* The objects with at most n of the keys in ks present. *)
RECURSIVE InnerDocs(_, _)
InnerDocs(ks, n) ==
    IF ks = {} \/ n = 0 THEN {EmptyDoc}
    ELSE LET k == CHOOSE x \in ks : TRUE IN
         InnerDocs(ks \ {k}, n)
         \cup { [d EXCEPT ![k] = v] :
                  d \in InnerDocs(ks \ {k}, n - 1), v \in InnerVals(k) }

InnerPlaintexts ==
    { <<Le32(1), RawChunk("ciphertext"), JsonChunk(TRUE, d)>>
      : d \in InnerDocs(InnerKeys \ {"hop_no"}, MaxJsonKeys) }
    \cup
    { <<>>,
      <<RawChunk("garbage")>>,
      <<Le32(0)>>,
      <<Le32(1), RawChunk("ciphertext")>>,
      <<Le32(2), RawChunk("ciphertext"),
        JsonChunk(TRUE, [EmptyDoc EXCEPT !["headers"] = JStr("")])>>,
      <<Le32(0), JsonChunk(TRUE, [EmptyDoc EXCEPT !["headers"] = JStr("")])>>,
      <<Le32(1), RawChunk("ciphertext"), JsonChunk(FALSE, EmptyDoc)>>,
      <<Le32(1), RawChunk("ciphertext"), RawChunk("{not json")>> }

(* Rosters of the node under test: each swarm with its own members. *)
SnodesOf(id) == <<[pubkey_legacy |-> 2 * id + 1], [pubkey_legacy |-> 2 * id + 2]>>

NodeSwarmIds == {0, U64Mod \div 2, MAX_ID}

NodeRosters ==
    { [i \in 1..Len(s) |-> [swarm_id |-> s[i], snodes |-> SnodesOf(s[i])]]
      : s \in { q \in SwarmIdSeqs :
                  \A i \in 1..Len(q) : q[i] \in NodeSwarmIds } }

Nodes ==
    { [all_valid_swarms_ |-> r, cur_swarm_id_ |-> c, stored |-> 0,
       retrieved |-> 0]
      : r \in NodeRosters, c \in NodeSwarmIds \cup {INVALID_SWARM_ID} }

PubKeyParams ==
    { [present |-> FALSE, str |-> FALSE, created |-> FALSE, words |-> PkOf(0)],
      [present |-> TRUE, str |-> FALSE, created |-> FALSE, words |-> PkOf(0)],
      [present |-> TRUE, str |-> TRUE, created |-> FALSE, words |-> PkOf(0)] }
    \cup
    { [present |-> TRUE, str |-> TRUE, created |-> TRUE, words |-> PkOf(h)]
      : h \in {0, 1, U64Mod \div 2, INVALID_SWARM_ID} }

FieldParams ==
    { [present |-> FALSE, str |-> FALSE, valid |-> FALSE],
      [present |-> TRUE, str |-> FALSE, valid |-> FALSE],
      [present |-> TRUE, str |-> TRUE, valid |-> FALSE],
      [present |-> TRUE, str |-> TRUE, valid |-> TRUE] }

DataParams ==
    { [present |-> FALSE, str |-> FALSE, size |-> 0],
      [present |-> TRUE, str |-> FALSE, size |-> 0],
      [present |-> TRUE, str |-> TRUE, size |-> MAX_MESSAGE_BODY],
      [present |-> TRUE, str |-> TRUE, size |-> MAX_MESSAGE_BODY + 1] }

HashParams ==
    { [present |-> FALSE, str |-> FALSE],
      [present |-> TRUE, str |-> FALSE],
      [present |-> TRUE, str |-> TRUE] }

StoreParams ==
    { [NoParams EXCEPT !.pubKey = k, !.ttl = t, !.timestamp = m, !.data = d]
      : k \in PubKeyParams, t \in FieldParams,
        m \in { f \in FieldParams : f.present => f.str }, d \in DataParams }

RetrieveParams ==
    { [NoParams EXCEPT !.pubKey = k, !.lastHash = h]
      : k \in PubKeyParams, h \in HashParams }

(* Onion chains.  The snode at hop i holds key pair NodeKey(i); the client *)
(* seals layer i under the ephemeral key, the scheme and the enc_type tag  *)
(* of chain[i].                                                            *)
NodeKey(i) == MaxHops + i

KnownNodes == { NodeKey(i) : i \in 1..MaxHops }

UnknownNode == NodeKey(MaxHops + 1)

TagTypes ==
    { <<"aes_gcm", "">>, <<"aes_gcm", "aes-gcm">>, <<"aes_cbc", "cbc">>,
      <<"aes_gcm", "aes-cbc">>, <<"aes_gcm", "xchacha20">> }

Layer(ekey, alg, tag) == [ekey |-> ekey, alg |-> alg, tag |-> tag]

LayerChoices(i) ==
    { Layer(i, at[1], at[2]) : at \in TagTypes }
    \cup { Layer(LowOrderPoint, "aes_gcm", "") }

Chains ==
    UNION { { c \in [1..n -> UNION { LayerChoices(i) : i \in 1..n }] :
                \A i \in 1..n : c[i] \in LayerChoices(i) }
            : n \in 1..MaxHops }

(* The service node that answers client requests: a member of swarm 0. *)
OnionNode ==
    [all_valid_swarms_ |->
         <<[swarm_id |-> 0, snodes |-> SnodesOf(0)],
           [swarm_id |-> U64Mod \div 2, snodes |-> SnodesOf(U64Mod \div 2)]>>,
     cur_swarm_id_ |-> 0, stored |-> 0, retrieved |-> 0]

GoodField == [present |-> TRUE, str |-> TRUE, valid |-> TRUE]

StoreRequest(h) ==
    RpcChunk(TRUE, TRUE, JStr("store"), "obj",
             [NoParams EXCEPT
                !.pubKey = [present |-> TRUE, str |-> TRUE, created |-> TRUE,
                            words |-> PkOf(h)],
                !.ttl = GoodField, !.timestamp = GoodField,
                !.data = [present |-> TRUE, str |-> TRUE, size |-> 1]])

RetrieveRequest(h) ==
    RpcChunk(TRUE, TRUE, JStr("retrieve"), "obj",
             [NoParams EXCEPT
                !.pubKey = [present |-> TRUE, str |-> TRUE, created |-> TRUE,
                            words |-> PkOf(h)],
                !.lastHash = [present |-> TRUE, str |-> TRUE]])

RpcBodies ==
    { <<StoreRequest(0)>>,
      <<RetrieveRequest(U64Mod \div 2)>>,
      <<RawChunk("{not json")>>,
      <<RpcChunk(TRUE, TRUE, JAbsent, "absent", NoParams)>>,
      <<RpcChunk(TRUE, TRUE, JStr("store"), "absent", NoParams)>> }

Doc1(k, v) == [EmptyDoc EXCEPT ![k] = v]

Targets ==
    {"/loki/v3/lsrpc", "/loki/lsrpc", "/loki/v3/lsrpc?foo=bar", "/evil"}

(* What the innermost layer holds. *)
Endings ==
    { <<Le32(1), b[1], JsonChunk(TRUE, Doc1("headers", JStr("")))>>
      : b \in RpcBodies }
    \cup
    { <<Le32(1), RawChunk("request"),
        JsonChunk(TRUE, [EmptyDoc EXCEPT !["host"] = JStr("example.com"),
                                         !["target"] = JStr(t)])>>
      : t \in Targets }
    \cup
    { <<RawChunk("garbage")>>,
      <<Le32(1), RawChunk("x"),
        JsonChunk(TRUE, [EmptyDoc EXCEPT
                           !["destination"] = JHex(UnknownNode),
                           !["ephemeral_key"] = JHex(1)])>> }

(* The client side: layer i sealed for the snode at hop i. *)
Seal(layer, i, plaintext) ==
    LET c == ChannelEncryption_encrypt(layer.ekey, layer.alg, plaintext,
                                       NodeKey(i), 1)
    IN IF c.ok THEN c.val ELSE <<RawChunk("garbage")>>

Routing(layer, dest) ==
    LET d == [EmptyDoc EXCEPT !["ephemeral_key"] = JHex(layer.ekey)]
        e == IF dest = 0 THEN d
             ELSE [d EXCEPT !["destination"] = JHex(dest)]
    IN JsonChunk(TRUE, IF layer.tag = "" THEN e
                       ELSE [e EXCEPT !["enc_type"] = JStr(layer.tag)])

(* The plaintext of layer i: the next layer and where to send it, or the   *)
(* ending.                                                                 *)
RECURSIVE LayerPlaintext(_, _, _)
LayerPlaintext(chain, i, ending) ==
    IF i = Len(chain) THEN ending
    ELSE LET ct == Seal(chain[i + 1], i + 1,
                        LayerPlaintext(chain, i + 1, ending))
         IN <<Le32(Len(ct))>> \o ct
                \o <<Routing(chain[i + 1], NodeKey(i + 1))>>

Frame(chain, ending) ==
    LET ct == Seal(chain[1], 1, LayerPlaintext(chain, 1, ending)) IN
    <<Le32(Len(ct))>> \o ct \o <<Routing(chain[1], 0)>>

BadFrames ==
    { <<>>,
      <<Le32(1), RawChunk("x"), JsonChunk(TRUE, EmptyDoc)>>,
      <<Le32(1), RawChunk("x"),
        JsonChunk(TRUE, [EmptyDoc EXCEPT !["ephemeral_key"] = JHex(1),
                                         !["hop_no"] = JStr("one")])>> }

(* The requests of a legacy proxy client, sealed with aes_cbc. *)
ProxyPayloads ==
    { Seal(Layer(1, "aes_cbc", "cbc"), 1, <<ProxyChunk(TRUE, b)>>)
      : b \in RpcBodies }
    \cup
    { Seal(Layer(1, "aes_cbc", "cbc"), 1, <<ProxyChunk(FALSE, <<>>)>>),
      <<RawChunk("garbage")>> }

UBs == {"throw", "crash", "garbage"}

StoreOutcomes == {"ok", "fail", "throw"}

Envs ==
    [ready : BOOLEAN, pad_ok : BOOLEAN, outcome : StoreOutcomes, ub : UBs,
     nonce : Nonces, known : {KnownNodes}]

-----------------------------------------------------------------------------
(* The state of each part while another part is exercised *)

SwarmIdle ==
    /\ all_swarms = <<>>
    /\ pk = [i \in 1..PkWords |-> 0]
    /\ ret = NoId

CipherIdle ==
    cipher = [pc |-> "off", type |-> "aes_gcm", tag |-> "gcm", a |-> 1,
              b |-> 1, plaintext |-> <<>>, ct |-> Exc, out |-> Exc,
              parsed |-> ExcStr]

InnerIdle == inner = [pc |-> "off", plaintext |-> <<>>, info |-> NoInfo]

NodeIdle ==
    sn = [all_valid_swarms_ |-> <<>>, cur_swarm_id_ |-> INVALID_SWARM_ID,
          stored |-> 0, retrieved |-> 0]

RpcIdle ==
    rpc = [pc |-> "off", method |-> "", params |-> NoParams, res |-> Thrown,
           outcome |-> ""]

NoLast ==
    [hop |-> 0, ciphertext |-> <<>>,
     data |-> OnionRequestMetadata(0, "aes_gcm"), env_ready |-> FALSE,
     pad_ok |-> FALSE, cbs |-> <<>>, info |-> NoInfo]

OnionOff ==
    [pc |-> "off", channel |-> "", chain |-> <<>>, ending |-> <<>>,
     hop |-> 0, ciphertext |-> <<>>,
     data |-> OnionRequestMetadata(0, "aes_gcm"), cbs |-> <<>>,
     wraps |-> <<>>, uses |-> {}, outbound |-> 0, last |-> NoLast,
     relay |-> [hop |-> 0, success |-> FALSE, data |-> <<>>]]

OnionIdle == onion = OnionOff

CoreIdle ==
    SwarmIdle /\ CipherIdle /\ InnerIdle /\ NodeIdle /\ RpcIdle /\ OnionIdle

FilterIdle == filter = [pc |-> "off", url |-> <<>>, allowed |-> FALSE]

HttpsOff ==
    [pc |-> "off", endpoint |-> "", content_length |-> "absent",
     alive |-> FALSE, aborted |-> FALSE, replied |-> FALSE,
     holders |-> {}, deferred |-> <<>>, written |-> <<>>, ended |-> FALSE,
     task |-> "none", timer |-> "none", tick |-> "idle", elapsed |-> 0,
     queued |-> 0, sn_calls |-> 0, late_calls |-> 0,
     client |-> [ipv4 |-> TRUE, limited |-> FALSE, long_poll |-> FALSE],
     body_read |-> FALSE, client_calls |-> 0,
     last |-> [status |-> "", elapsed |-> 0, queued |-> 0, timer |-> "none",
               res |-> <<>>]]

HttpsIdle == https = HttpsOff

ConnOff ==
    [pc |-> "off",
     request |-> [auth |-> "", json |-> FALSE, fields |-> FALSE,
                  tester |-> FALSE],
     delay_response_ |-> FALSE, repetition_count_ |-> 0, elapsed |-> 0,
     sn_calls |-> 0,
     result |-> 0, body |-> "", written |-> <<>>, open |-> FALSE,
     last |-> ""]

ConnIdle == conn = ConnOff

NoEvents ==
    [our_swarm_id |-> 0, our_swarm_members |-> <<>>, dissolved |-> FALSE,
     new_snodes |-> <<>>, new_swarms |-> <<>>]

EventsIdle ==
    events = [pc |-> "off",
              self |-> [our_address_ |-> [pubkey_legacy |-> 0],
                        cur_swarm_id_ |-> 0, swarm_peers_ |-> <<>>,
                        all_valid_swarms_ |-> <<>>],
              swarms |-> <<>>, out |-> NoEvents]

NotRead == [kind |-> "none", pk |-> 0, found |-> FALSE]

RosterIdle ==
    roster = [pc |-> "off",
              all_valid_swarms_ |-> <<>>, swarm_peers_ |-> <<>>,
              all_funded_nodes_ |-> {}, all_funded_ed25519_ |-> {},
              all_funded_x25519_ |-> {},
              swarms |-> <<>>, decommissioned |-> <<>>,
              members |-> <<>>, active |-> FALSE,
              todo |-> <<>>, before |-> {}, read |-> NotRead]

LaterIdle ==
    FilterIdle /\ HttpsIdle /\ ConnIdle /\ EventsIdle /\ RosterIdle

AppliedIdle ==
    applied = [pc |-> "off", all_valid_swarms_ |-> <<>>,
               new_swarms |-> <<>>, prior |-> <<>>]

OxendIdle ==
    oxend = [pc |-> "off",
             params |-> [endpoint |-> [t |-> "absent", s |-> ""],
                         oxend_params |-> "absent"],
             cbs |-> <<>>, forwarded |-> <<>>]

SessionOff ==
    [pc |-> "off", kind |-> "", alive |-> FALSE, timer |-> "none",
     closed |-> FALSE, used_callback_ |-> FALSE, posted |-> <<>>,
     calls |-> <<>>]

SessionIdle == session = SessionOff

CombinedOff ==
    [pc |-> "off", payload |-> <<>>, emitted |-> FALSE, c |-> <<>>,
     json |-> [t |-> "null", n |-> 0, e |-> <<>>],
     out |-> [ok |-> FALSE, ciphertext |-> <<>>,
              json |-> [t |-> "null", n |-> 0, e |-> <<>>], read |-> 0]]

CombinedIdle == combined = CombinedOff

(* The HTTPSServer as its constructor leaves it: the server thread waits   *)
(* for the startup signal, nothing listens.                                *)
ServerOff ==
    [pc |-> "off", bind |-> <<>>, thread |-> "waiting",
     startup_promise_ |-> "unset", startup_success_ |-> "unset",
     joinable |-> TRUE, sent_startup_ |-> FALSE, sent_shutdown_ |-> FALSE,
     listen_socks_ |-> {}, closing_ |-> FALSE, listening |-> {},
     deferred |-> 0, conns |-> 0, calls |-> 0,
     started |-> 0, start_threw |-> 0, sets |-> 0, defers |-> 0,
     listened |-> FALSE, closed_by |-> "none", joined |-> FALSE]

ServerIdle == server = ServerOff

RequestOff ==
    [pc |-> "off", req_json |-> <<>>,
     out |-> Called(<<>>, FALSE, FALSE, FALSE, FALSE)]

RequestIdle == request = RequestOff

(* The per-snode bucket of the peer P that the storage tests name as their *)
(* sender; shadow is the bucket P would have had if only requests whose    *)
(* signature verified had been charged                                     *)
LimiterOff ==
    [pc |-> "off", front |-> "", tokens |-> 0, shadow |-> 0, handled |-> 0,
     refills |-> 0,
     last |-> [req |-> [headers |-> FALSE, known |-> FALSE, signed |-> FALSE],
               status |-> "", charged |-> FALSE, shadow |-> 0]]

LimiterIdle == limiter = LimiterOff

(* A Swarm object of a node: its swarm id, its roster, and the answer of *)
(* the last is_pubkey_for_us since either changed                       *)
OwnOff ==
    [pc |-> "off", cur_swarm_id_ |-> 0, all_valid_swarms_ |-> <<>>,
     asked |-> <<>>, answer |-> "none"]

OwnIdle == own = OwnOff

(* One accepted connection_t: who holds a shared_ptr to it, its deadline, *)
(* its stream and the continuation of a delayed reply                     *)
LifeOff ==
    [pc |-> "off", kind |-> "", parse_ok |-> FALSE,
     holders |-> {}, shutdowns |-> 0, deadline |-> "none",
     delay_response_ |-> FALSE, pending |-> FALSE,
     stream |-> "none", destroyed |-> FALSE,
     writes |-> 0, late_writes |-> 0, closes |-> 0, uaf |-> FALSE]

LifeIdle == life = LifeOff

MoreIdle ==
    /\ AppliedIdle
    /\ OxendIdle
    /\ SessionIdle
    /\ CombinedIdle
    /\ ServerIdle
    /\ RequestIdle
    /\ LimiterIdle
    /\ OwnIdle
    /\ LifeIdle

-----------------------------------------------------------------------------
(* get_swarm_by_pk applied to a roster and a pubkey *)

SwarmInit ==
    /\ all_swarms \in Rosters
    /\ pk \in UserPubkeys
    /\ ret = NoId
    /\ CipherIdle
    /\ InnerIdle
    /\ NodeIdle
    /\ RpcIdle
    /\ OnionIdle
    /\ LaterIdle
    /\ MoreIdle

CallGetSwarmByPk ==
    /\ ret = NoId
    /\ ret' = get_swarm_by_pk(all_swarms, pk)
    /\ UNCHANGED <<all_swarms, pk, cipher, inner, sn, rpc, onion, laterVars, moreVars>>

SwarmNext == CallGetSwarmByPk

SpecSwarm == SwarmInit /\ [][SwarmNext]_vars

-----------------------------------------------------------------------------
(* The channel cipher exercised by two key holders a and b: a encrypts to  *)
(* b's public key, b decrypts with a's public key; a wire tag is parsed.   *)

CipherInit ==
    /\ SwarmIdle
    /\ InnerIdle
    /\ NodeIdle
    /\ RpcIdle
    /\ OnionIdle
    /\ LaterIdle
    /\ MoreIdle
    /\ \E t \in EncryptTypes, g \in WireTags, a, b \in KeyIds,
          p \in Plaintexts :
          cipher = [pc |-> "start", type |-> t, tag |-> g, a |-> a, b |-> b,
                    plaintext |-> p, ct |-> Exc, out |-> Exc,
                    parsed |-> ExcStr]

CipherParseTag ==
    /\ cipher.pc = "start"
    /\ cipher' = [cipher EXCEPT !.pc = "parsed",
                                !.parsed = parse_enc_type(cipher.tag)]
    /\ UNCHANGED <<swarmVars, inner, sn, rpc, onion, laterVars, moreVars>>

CipherEncrypt ==
    /\ cipher.pc = "parsed"
    /\ \E nonce \in Nonces :
          cipher' = [cipher EXCEPT
                        !.pc = "encrypted",
                        !.ct = ChannelEncryption_encrypt(
                                   cipher.a, cipher.type, cipher.plaintext,
                                   cipher.b, nonce)]
    /\ UNCHANGED <<swarmVars, inner, sn, rpc, onion, laterVars, moreVars>>

CipherDecrypt ==
    /\ cipher.pc = "encrypted"
    /\ cipher.ct.ok
    /\ \E pad_ok \in BOOLEAN :
          cipher' = [cipher EXCEPT
                        !.pc = "decrypted",
                        !.out = ChannelEncryption_decrypt(
                                    cipher.b, cipher.type, cipher.ct.val,
                                    cipher.a, pad_ok)]
    /\ UNCHANGED <<swarmVars, inner, sn, rpc, onion, laterVars, moreVars>>

CipherNext == CipherParseTag \/ CipherEncrypt \/ CipherDecrypt

SpecCipher == CipherInit /\ [][CipherNext]_vars

-----------------------------------------------------------------------------
(* process_inner_request applied to a decrypted plaintext *)

InnerInit ==
    /\ SwarmIdle
    /\ CipherIdle
    /\ NodeIdle
    /\ RpcIdle
    /\ OnionIdle
    /\ LaterIdle
    /\ MoreIdle
    /\ \E p \in InnerPlaintexts :
          inner = [pc |-> "start", plaintext |-> p, info |-> NoInfo]

CallProcessInnerRequest ==
    /\ inner.pc = "start"
    /\ inner' = [inner EXCEPT !.pc = "done",
                              !.info = process_inner_request(inner.plaintext)]
    /\ UNCHANGED <<swarmVars, cipher, sn, rpc, onion, laterVars, moreVars>>

InnerNext == CallProcessInnerRequest

SpecInner == InnerInit /\ [][InnerNext]_vars

-----------------------------------------------------------------------------
(* C1: classification of the inner request *)

InnerJson == parse_combined_payload(inner.plaintext)

InnerHas(key) == InnerJson.ok /\ Has(InnerJson.json, key)

InnerDoc == InnerJson.json.doc

OptionalIs(key, types) == ~InnerHas(key) \/ InnerDoc[key].t \in types

FinalWellTyped ==
    OptionalIs("json", {"bool"}) /\ OptionalIs("base64", {"bool"})

ServerWellTyped ==
    /\ InnerDoc["host"].t = "str"
    /\ InnerDoc["target"].t = "str"
    /\ OptionalIs("port", {"num", "bool"})
    /\ OptionalIs("protocol", {"str"})

NodeWellTyped ==
    /\ InnerDoc["destination"].t = "str" /\ InnerDoc["destination"].s = "hex"
    /\ InnerDoc["ephemeral_key"].t = "str"
    /\ InnerDoc["ephemeral_key"].s = "hex"
    /\ \/ ~InnerHas("enc_type")
       \/ /\ InnerDoc["enc_type"].t = "str"
          /\ InnerDoc["enc_type"].s \in {"aes-gcm", "gcm", "aes-cbc", "cbc"}

-----------------------------------------------------------------------------
(* A client RPC (store or retrieve) handled by a node in some swarm *)

ClientInit ==
    /\ SwarmIdle
    /\ CipherIdle
    /\ InnerIdle
    /\ OnionIdle
    /\ LaterIdle
    /\ MoreIdle
    /\ sn \in Nodes
    /\ \/ \E q \in StoreParams :
             rpc = [pc |-> "start", method |-> "store", params |-> q,
                    res |-> Thrown, outcome |-> ""]
       \/ \E q \in RetrieveParams :
             rpc = [pc |-> "start", method |-> "retrieve", params |-> q,
                    res |-> Thrown, outcome |-> ""]

Finish(h, outcome) ==
    /\ rpc' = [rpc EXCEPT !.pc = "done", !.res = h.res,
                          !.outcome = outcome]
    /\ sn' = [sn EXCEPT
                 !.stored = @ + (IF h.stored THEN 1 ELSE 0),
                 !.retrieved = @ + (IF h.retrieved THEN 1 ELSE 0)]

ClientStore ==
    /\ rpc.pc = "start"
    /\ rpc.method = "store"
    /\ \E outcome \in StoreOutcomes :
          Finish(process_store(rpc.params, sn, outcome), outcome)
    /\ UNCHANGED <<swarmVars, cipher, inner, onion, laterVars, moreVars>>

ClientRetrieve ==
    /\ rpc.pc = "start"
    /\ rpc.method = "retrieve"
    /\ \E outcome \in StoreOutcomes :
          Finish(process_retrieve(rpc.params, sn, outcome), outcome)
    /\ UNCHANGED <<swarmVars, cipher, inner, onion, laterVars, moreVars>>

ClientNext == ClientStore \/ ClientRetrieve

SpecClient == ClientInit /\ [][ClientNext]_vars

-----------------------------------------------------------------------------
(* C5: misdirected requests *)

(* The pubKey is syntactically valid and maps to a swarm of the roster     *)
(* that is not this node's.                                                *)
Misdirected ==
    /\ rpc.params.pubKey.present /\ rpc.params.pubKey.str
    /\ rpc.params.pubKey.created
    /\ get_swarm_by_pk(sn.all_valid_swarms_, rpc.params.pubKey.words)
           # sn.cur_swarm_id_

MembersOf(swarm_id) ==
    IF \E i \in 1..Len(sn.all_valid_swarms_) :
           sn.all_valid_swarms_[i].swarm_id = swarm_id
    THEN SnodesOf(swarm_id) ELSE <<>>

Answered421 ==
    /\ rpc.res.status = 421
    /\ rpc.res.kind = "snodes"
    /\ rpc.res.snodes =
         MembersOf(get_swarm_by_pk(sn.all_valid_swarms_,
                                   rpc.params.pubKey.words))
    /\ sn.stored = 0 /\ sn.retrieved = 0

\* C5 as stated: a valid pubKey of another swarm gets 421 with that swarm's
\* snodes for every store and retrieve, whatever the other parameters, and
\* the persistence layer is not called.
C5_MisdirectedAlways ==
    (rpc.pc = "done" /\ Misdirected) => Answered421

StoreReachesSwarmCheck ==
    /\ rpc.params.ttl.present /\ rpc.params.ttl.str
    /\ rpc.params.timestamp.present /\ rpc.params.timestamp.str
    /\ rpc.params.data.present /\ rpc.params.data.str
    /\ rpc.params.data.size <= MAX_MESSAGE_BODY

\* C5, amended: a store with all four fields present as strings and data of
\* at most 102400 bytes, and a retrieve with lastHash present, for a valid
\* pubKey of another swarm gets 421 with that swarm's snodes (whatever the
\* validity of ttl and timestamp), and the persistence layer is not called.
C5_MisdirectedAfterBasicChecks ==
    (/\ rpc.pc = "done"
     /\ Misdirected
     /\ rpc.method = "store" => StoreReachesSwarmCheck
     /\ rpc.method = "retrieve" => rpc.params.lastHash.present)
        => Answered421

C5_Witness ==
    /\ rpc.pc = "done"
    /\ rpc.method = "store"
    /\ Misdirected
    /\ ~rpc.params.ttl.valid
    /\ rpc.res.status = 421
    /\ Len(rpc.res.snodes) > 0

-----------------------------------------------------------------------------
(* C6-C8: the swarm mapping *)

Abs(x) == IF x < 0 THEN -x ELSE x

Min2(a, b) == IF a < b THEN a ELSE b

(* Ring distance of the claim: min(|id - h|, (2^64 - 1) - |id - h|). *)
RingDist(id, h) == Min2(Abs(id - h), INVALID_SWARM_ID - Abs(id - h))

Nearest(swarms, h) ==
    { id \in ValidIds(swarms) :
        \A o \in ValidIds(swarms) : RingDist(id, h) <= RingDist(o, h) }

\* C6: with at least one valid swarm, the returned id is at minimal ring
\* distance from h among the valid swarm ids of the roster.
C6_NearestOnRing ==
    (ret # NoId /\ ValidIds(all_swarms) # {})
        => ret \in Nearest(all_swarms, hex_to_u64(pk))

\* C7: when two swarm ids tie at the minimal ring distance, the smaller id
\* is returned, whatever the list order and the kind of tie.
C7_TieToSmaller ==
    (ret # NoId /\ Cardinality(Nearest(all_swarms, hex_to_u64(pk))) >= 2)
        => \A o \in Nearest(all_swarms, hex_to_u64(pk)) : ret <= o

\* C8: with at least one valid swarm in the roster, the returned id is the
\* id of a valid swarm of the roster, never INVALID_SWARM_ID.
C8_NeverInvalid ==
    (ret # NoId /\ ValidIds(all_swarms) # {})
        => (ret \in ValidIds(all_swarms) /\ ret # INVALID_SWARM_ID)

-----------------------------------------------------------------------------
(* C9: the channel cipher *)

TagOf(type) ==
    CASE type = "aes_gcm" -> {"aes-gcm", "gcm"}
      [] type = "aes_cbc" -> {"aes-cbc", "cbc"}
      [] type = "xchacha20" -> {"xchacha20"}

\* C9: each of aes_gcm, aes_cbc and xchacha20 is accepted by encrypt, by
\* decrypt and by parse_enc_type, and b.decrypt(t, a.encrypt(t, p, b.pub),
\* a.pub) = p for all plaintexts p and key pairs a, b.
C9_RoundTripAllTypes ==
    /\ (cipher.pc \in {"parsed", "encrypted", "decrypted"}
        /\ cipher.tag \in TagOf(cipher.type))
          => (cipher.parsed.ok /\ cipher.parsed.val = cipher.type)
    /\ cipher.pc \in {"encrypted", "decrypted"} => cipher.ct.ok
    /\ cipher.pc = "decrypted"
          => (cipher.out.ok /\ cipher.out.val = cipher.plaintext)


-----------------------------------------------------------------------------
(* An onion request travelling down a chain of snodes and its reply        *)
(* travelling back; a legacy proxy request at its exit node                *)

OnionInit ==
    /\ LaterIdle
    /\ MoreIdle
    /\ SwarmIdle
    /\ CipherIdle
    /\ InnerIdle
    /\ RpcIdle
    /\ sn = OnionNode
    /\ \/ \E chain \in Chains, ending \in Endings :
             onion = [OnionOff EXCEPT
                        !.pc = "entry", !.channel = "onion",
                        !.chain = chain, !.ending = ending, !.hop = 1,
                        !.ciphertext = Frame(chain, ending)]
       \/ \E frame \in BadFrames :
             onion = [OnionOff EXCEPT
                        !.pc = "entry", !.channel = "onion", !.hop = 1,
                        !.ciphertext = frame]
       \/ \E payload \in ProxyPayloads, k \in {1, LowOrderPoint} :
             onion = [OnionOff EXCEPT
                        !.pc = "proxy", !.channel = "proxy", !.hop = 1,
                        !.ciphertext = payload,
                        !.data = OnionRequestMetadata(k, "aes_cbc")]

(* The state after the snode at hop h has handled a request with outcome o *)
AfterHop(h, o, env) ==
    /\ onion' =
         [onion EXCEPT
            !.pc = IF o.forward THEN "sent"
                   ELSE IF o.url THEN "url"
                   ELSE IF h = 1 THEN "done" ELSE "reply",
            !.hop = IF o.forward THEN h + 1 ELSE h,
            !.ciphertext = IF o.forward THEN o.payload ELSE @,
            !.data = IF o.forward THEN o.data ELSE @,
            !.cbs = o.cbs,
            !.wraps = @ \o [i \in 1..Len(o.wraps) |->
                              [hop |-> h, call |-> o.wraps[i]]],
            !.uses = @ \cup { [op |-> u.op, type |-> u.type,
                               channel |-> onion.channel] : u \in o.uses },
            !.outbound = @ + (IF o.url THEN 1 ELSE 0),
            !.last = [hop |-> h, ciphertext |-> o.layer,
                      data |-> o.meta, env_ready |-> env.ready,
                      pad_ok |-> env.pad_ok, cbs |-> o.cbs,
                      info |-> o.info]]
    /\ sn' = [sn EXCEPT
                !.stored = @ + (IF o.stored THEN 1 ELSE 0),
                !.retrieved = @ + (IF o.retrieved THEN 1 ELSE 0)]

(* POST /onion_req/v2 at the edge snode *)
OnionEntry ==
    /\ onion.pc = "entry"
    /\ \E env \in Envs :
          \E o \in {process_onion_req_v2(NodeKey(1), onion.ciphertext,
                                        sn, env)} :
              AfterHop(1, o, env)
    /\ UNCHANGED <<swarmVars, cipher, inner, rpc, laterVars, moreVars>>

(* sn.onion_req at the next snode: the payload and the metadata the relay  *)
(* sent.  An exception leaving the handler sends nothing back.             *)
OnionHop ==
    /\ onion.pc = "sent"
    /\ onion.hop <= MaxHops
    /\ \E env \in Envs :
          \E o \in {process_onion_req(NodeKey(onion.hop), onion.ciphertext,
                                     onion.data, sn, env)} :
              AfterHop(onion.hop, o, env)
    /\ UNCHANGED <<swarmVars, cipher, inner, rpc, laterVars, moreVars>>

StatusPart(res) == [tok |-> "status", int |-> TRUE, code |-> res.status]

BodyPart(res) == [tok |-> "body", res |-> res]

(* What may reach the relay's on_response for a reply res of upstream. *)
Upstream(cbs) ==
    { [success |-> FALSE, data |-> <<>>] }
    \cup
    (IF cbs = <<>> THEN {}
     ELSE { [success |-> TRUE,
             data |-> <<StatusPart(cbs[1]), BodyPart(cbs[1])>>],
            [success |-> TRUE, data |-> <<StatusPart(cbs[1])>>],
            [success |-> TRUE,
             data |-> <<[StatusPart(cbs[1]) EXCEPT !.int = FALSE],
                        BodyPart(cbs[1])>>] })

(* The reply of hop h reaches the relay at hop h - 1. *)
RelayOnResponse ==
    /\ onion.pc = "reply"
    /\ onion.hop > 1
    /\ \E up \in Upstream(onion.cbs) :
          onion' = [onion EXCEPT
                      !.pc = IF onion.hop = 2 THEN "done" ELSE "reply",
                      !.hop = @ - 1,
                      !.cbs = <<on_response(up.success, up.data)>>,
                      !.relay = [hop |-> onion.hop - 1,
                                 success |-> up.success, data |-> up.data]]
    /\ UNCHANGED <<swarmVars, cipher, inner, rpc, sn, laterVars, moreVars>>

(* The external server answers, or the request to it fails. *)
UrlResponse ==
    /\ onion.pc = "url"
    /\ \E no_error \in BOOLEAN :
          onion' = [onion EXCEPT
                      !.pc = IF onion.hop = 1 THEN "done" ELSE "reply",
                      !.cbs = <<IF no_error
                                THEN TextResponse(200, "server body")
                                ELSE TextResponse(400, "Oxen Server error")>>]
    /\ UNCHANGED <<swarmVars, cipher, inner, rpc, sn, laterVars, moreVars>>

ProxyExit ==
    /\ onion.pc = "proxy"
    /\ \E env \in Envs :
          \E o \in {process_proxy_exit(NodeKey(1), onion.data.ephem_key,
                                      onion.ciphertext, sn, env)} :
              AfterHop(1, o, env)
    /\ UNCHANGED <<swarmVars, cipher, inner, rpc, laterVars, moreVars>>

OnionNext ==
    OnionEntry \/ OnionHop \/ RelayOnResponse \/ UrlResponse \/ ProxyExit

SpecOnion == OnionInit /\ [][OnionNext]_vars

-----------------------------------------------------------------------------
(* C2, C3, C4, C10: the replies of an onion request *)

(* The scheme a client means by an enc_type tag. *)
ClientType(tag) ==
    CASE tag \in {"", "aes-gcm", "gcm"} -> "aes_gcm"
      [] tag \in {"aes-cbc", "cbc"} -> "aes_cbc"
      [] OTHER -> tag

(* What the client that built layer h recovers from a reply body. *)
ClientUnwrap(h, res) ==
    LET ct == from_base64(res.bytes) IN
    IF ~ct.ok THEN Exc
    ELSE ChannelEncryption_decrypt(onion.chain[h].ekey,
                                   ClientType(onion.chain[h].tag), ct.val,
                                   NodeKey(h), FALSE)

WrapsAt(h) ==
    { i \in 1..Len(onion.wraps) : onion.wraps[i].hop = h }

\* C2: at a terminal hop, every Response handed to the onion reply callback
\* has as body base64(encrypt(enc_type, JSON{status, body}, ephem_key)) for
\* the incoming layer's key and type, so that the client holding the
\* ephemeral secret recovers the status and body the handler produced.
C2_TerminalReplyDecrypts ==
    \A i \in 1..Len(onion.wraps) :
        LET w == onion.wraps[i] IN
        w.call.why = "exit" =>
            ClientUnwrap(w.hop, w.call.out) = Ok(<<ResJson(w.call.res)>>)

(* A reply that a chain of relays may make of the reply up: the body of   *)
(* up, or of a relay's own 504 / 500, under that reply's status or, where  *)
(* a status part did not parse as an integer, under 500.                   *)
PassedThrough(r, up) ==
    \E b \in {TextResponse(504, "Request time out"),
              TextResponse(500, "Invalid response from snode")}
             \cup (IF up = <<>> THEN {} ELSE {up[1]}) :
        /\ [r EXCEPT !.status = 0] = [b EXCEPT !.status = 0]
        /\ r.status \in {b.status, 500}

\* C3 as stated: the reply is encrypted at every hop i of the chain with
\* the (ei, ti) that hop received; a relaying hop wraps the reply it passes
\* upstream under its own incoming (ei, ti).
C3_EveryHopWraps ==
    (/\ onion.channel = "onion"
     /\ onion.pc = "done"
     /\ onion.last.info.kind = "FinalDestination"
     /\ onion.cbs # <<>>
     /\ onion.cbs[1].status = 200)
        => \A h \in 1..onion.last.hop :
              \E i \in WrapsAt(h) :
                  /\ onion.wraps[i].call.client_key = onion.chain[h].ekey
                  /\ onion.wraps[i].call.enc_type
                         = ClientType(onion.chain[h].tag)

\* C3, amended: only the hop that ends the chain calls wrap_proxy_response,
\* and it does so with the (ei, ti) of its own incoming layer, never with
\* those of another layer; a relaying hop hands the upstream status and
\* body on as they are (or its own 504 / 500), without wrapping them again.
C3_OnlyLastHopWrapsUnderIncoming ==
    onion.channel = "onion" =>
        /\ \A i \in 1..Len(onion.wraps) :
              LET w == onion.wraps[i] IN
              /\ w.hop = onion.last.hop
              /\ w.hop \in 1..Len(onion.chain)
              /\ w.call.client_key = onion.chain[w.hop].ekey
              /\ w.call.enc_type = ClientType(onion.chain[w.hop].tag)
        /\ (onion.pc \in {"reply", "done"} /\ onion.hop < onion.last.hop
            /\ onion.last.info.kind # "RelayToServer")
               => /\ Len(onion.cbs) = 1
                  /\ PassedThrough(onion.cbs[1], onion.last.cbs)

C3_Witness ==
    /\ onion.pc = "done"
    /\ onion.last.hop = 2
    /\ onion.last.info.kind = "FinalDestination"
    /\ onion.chain[1].ekey # onion.chain[2].ekey
    /\ onion.chain[1].tag # onion.chain[2].tag
    /\ \E i \in WrapsAt(2) :
          /\ onion.wraps[i].call.res.status = 421
          /\ onion.cbs = <<onion.wraps[i].call.out>>

(* Whether the layer handed to the last hop decrypts there. *)
LastDecrypt ==
    ChannelEncryption_decrypt(NodeKey(onion.last.hop),
                              onion.last.data.enc_type,
                              onion.last.ciphertext,
                              onion.last.data.ephem_key, onion.last.pad_ok)

LastDecoded ==
    /\ onion.channel = "onion"
    /\ onion.last.hop >= 1
    /\ onion.last.env_ready
    /\ onion.last.info.kind # "none"

\* C4 as stated: whenever a hop fails to decode its layer (the ciphertext
\* does not decrypt, or the plaintext is not a valid combined payload or
\* inner JSON), its reply is an error encrypted under the incoming layer's
\* key and type; no decode failure gets an unencrypted error body.
C4_DecodeFailureEncrypted ==
    (LastDecoded /\ onion.last.info.kind = "Error")
        => /\ Len(onion.last.cbs) = 1
           /\ ClientUnwrap(onion.last.hop, onion.last.cbs[1]).ok

\* C4, amended: a hop whose layer does not decrypt replies with the
\* unencrypted 400 "Invalid ciphertext" and wraps nothing; a hop whose
\* decrypted plaintext is not a valid combined payload or inner JSON hands
\* {400, "Invalid json"} to wrap_proxy_response with the incoming layer's
\* ephem_key and enc_type and replies with what that returns.
C4_DecodeFailureReplies ==
    LastDecoded =>
        /\ ~LastDecrypt.ok
              => /\ onion.last.cbs = <<TextResponse(400, "Invalid ciphertext")>>
                 /\ onion.wraps = <<>>
        /\ (LastDecrypt.ok
            /\ process_inner_request(LastDecrypt.val).kind = "Error")
              => /\ Len(onion.wraps) = 1
                 /\ onion.wraps[1].hop = onion.last.hop
                 /\ onion.wraps[1].call.res
                        = TextResponse(400, "Invalid json")
                 /\ onion.wraps[1].call.client_key
                        = onion.chain[onion.last.hop].ekey
                 /\ onion.wraps[1].call.enc_type
                        = ClientType(onion.chain[onion.last.hop].tag)
                 /\ onion.last.cbs = <<onion.wraps[1].call.out>>

C4_Witness ==
    /\ LastDecoded
    /\ onion.last.hop = 2
    /\ ~LastDecrypt.ok
    /\ onion.last.cbs = <<TextResponse(400, "Invalid ciphertext")>>
    /\ onion.pc = "reply"

\* C10: aes_cbc is never used for an onion layer: no onion request is
\* decrypted and no onion reply encrypted with it; only the legacy proxy
\* exit uses it.
C10_NoCbcOnOnion ==
    \A u \in onion.uses : u.type = "aes_cbc" => u.channel = "proxy"


-----------------------------------------------------------------------------
(* is_server_url_allowed on its own: the url is put together from up to     *)
(* MaxPieces pieces.                                                       *)

UrlPieces ==
    { Chars(x) : x \in {"/loki/", "/oxen/", "/lsrpc", "/loki", "lsrpc",
                        "v3", "?", "/not_loki/"} }

RECURSIVE UrlsOf(_)
UrlsOf(n) ==
    IF n = 0 THEN { <<>> }
    ELSE UrlsOf(n - 1)
         \cup { u \o x : u \in UrlsOf(n - 1), x \in UrlPieces }

Urls == UrlsOf(MaxPieces)

FilterInit ==
    /\ CoreIdle
    /\ HttpsIdle
    /\ ConnIdle
    /\ EventsIdle
    /\ RosterIdle
    /\ MoreIdle
    /\ \E u \in Urls : filter = [pc |-> "call", url |-> u, allowed |-> FALSE]

CallIsServerUrlAllowed ==
    /\ filter.pc = "call"
    /\ filter' = [filter EXCEPT !.pc = "done",
                                !.allowed = is_server_url_allowed(filter.url)]
    /\ UNCHANGED <<coreVars, https, conn, events, roster, moreVars>>

FilterNext == CallIsServerUrlAllowed

SpecFilter == FilterInit /\ [][FilterNext]_vars

(* u = p followed by something *)
HasPrefix(u, p) ==
    \E i \in 1..(Len(u) + 1) : u = p \o SubSeq(u, i, Len(u))

(* u = something followed by x *)
HasSuffix(u, x) ==
    \E i \in 0..Len(u) : u = SubSeq(u, 1, i) \o x

\* C11: for every string u, is_server_url_allowed(u) is true if and only if
\* u starts with /loki/ or /oxen/, ends with /lsrpc and contains no
\* question mark.
C11_FilterIff ==
    filter.pc = "done" =>
        (filter.allowed <=>
            /\ HasPrefix(filter.url, Chars("/loki/"))
                  \/ HasPrefix(filter.url, Chars("/oxen/"))
            /\ HasSuffix(filter.url, Chars("/lsrpc"))
            /\ "?" \notin { filter.url[i] : i \in DOMAIN filter.url })

C11_Witness ==
    /\ filter.pc = "done"
    /\ filter.allowed
    /\ filter.url = Chars("/loki/v3/lsrpc")


-----------------------------------------------------------------------------
(* C12: which targets a relay-to-server request is forwarded for *)

(* u matches ^/(loki|oxen)/.*/lsrpc$ *)
MatchesTargetRegex(u) ==
    \E p \in {Chars("/loki/"), Chars("/oxen/")} :
        \E j \in Len(p)..Len(u) :
            u = p \o SubSeq(u, Len(p) + 1, j) \o Chars("/lsrpc")

NoQuery(u) == "?" \notin { u[i] : i \in DOMAIN u }

ToServer ==
    /\ onion.channel = "onion"
    /\ onion.last.hop >= 1
    /\ onion.last.info.kind = "RelayToServer"

InvalidUrlHandedToWrap ==
    /\ onion.outbound = 0
    /\ \E i \in WrapsAt(onion.last.hop) :
          /\ onion.wraps[i].call.why = "url"
          /\ onion.wraps[i].call.res = TextResponse(400, "Invalid url")

\* C12 as stated: a RelayToServer request causes an outbound request only
\* if its target matches ^/(loki|oxen)/.*/lsrpc$ and has no question mark;
\* for every other target, /loki/lsrpc included, no outbound request is
\* made and the reply is 400 Invalid url.
C12_OutboundOnlyIfRegex ==
    ToServer =>
        LET u == Chars(onion.last.info.target) IN
        IF MatchesTargetRegex(u) /\ NoQuery(u)
        THEN onion.outbound = 1
        ELSE InvalidUrlHandedToWrap

\* C12, amended: a RelayToServer request causes an outbound request exactly
\* if its target starts with /loki/ or /oxen/, ends with /lsrpc (the two may
\* overlap, as in /loki/lsrpc) and has no question mark; for every other
\* target no outbound request is made and 400 Invalid url is handed to
\* wrap_proxy_response.
C12_OutboundOnlyIfFilter ==
    ToServer =>
        LET u == Chars(onion.last.info.target) IN
        IF /\ HasPrefix(u, Chars("/loki/")) \/ HasPrefix(u, Chars("/oxen/"))
           /\ HasSuffix(u, Chars("/lsrpc"))
           /\ NoQuery(u)
        THEN onion.outbound = 1
        ELSE InvalidUrlHandedToWrap

C12_Witness ==
    /\ ToServer
    /\ onion.last.info.target = "/loki/lsrpc"
    /\ onion.outbound = 1
    /\ onion.pc = "done"


-----------------------------------------------------------------------------
(* The HTTPS front-end (https_server.cpp): one request, its call_data, the  *)
(* lambdas deferred to the event loop, the worker task and the retry timer. *)
(* The loop thread runs HandleRequest, OnAborted, OnData, ConnectionDone    *)
(* and LoopDeferred; worker threads run the task and the timer ticks.  A    *)
(* worker's handler is two steps, split where it has read the call_data     *)
(* flags, because the loop thread may run in between.                       *)

HttpRes(status, body) == [status |-> status, body |-> body]

Endpoints == {"storage_test", "storage_rpc", "onion_req"}

ContentLengths == {"absent", "ok", "invalid", "too_large"}

MessageTestStatus == {"SUCCESS", "WRONG_REQ", "RETRY", "ERROR"}

(* The shared_ptr copies of the call_data: those in holders and those in    *)
(* the response lambdas waiting in the loop's queue.                        *)
Referenced(h) ==
    \/ h.holders # {}
    \/ \E i \in 1..Len(h.deferred) : h.deferred[i].kind = "response"

(* ~call_data(), run when the last shared_ptr goes away *)
call_data_destructor(h) ==
    IF ~h.alive \/ Referenced(h) THEN h
    ELSE [h EXCEPT
            !.alive = FALSE,
            !.deferred =
                IF h.replied \/ h.aborted THEN @
                ELSE Append(@, [kind |-> "busy",
                                res |-> HttpRes(503,
                                          "Server busy, try again later")])]

(* The end of a handler: its copies are gone. *)
Released(h) == Bind(h, LAMBDA x : call_data_destructor(x))

(* r.end(...): the response is written; the library lets go of the          *)
(* handlers attached to it.                                                 *)
queue_response_internal(h, res, by) ==
    [h EXCEPT !.written = Append(@, [res |-> res, by |-> by,
                                     aborted |-> h.aborted]),
              !.ended = TRUE,
              !.holders = @ \ {"onAborted", "onData"}]

queue_response(h, res) ==
    IF h.replied THEN h
    ELSE [h EXCEPT !.replied = TRUE,
                   !.queued = @ + 1,
                   !.deferred = Append(@, [kind |-> "response",
                                           res |-> res])]

StorageTestBody(status) ==
    CASE status = "SUCCESS" -> "OK"
      [] status = "WRONG_REQ" -> "wrong request"
      [] OTHER -> "other"

handle_storage_test_impl(h, status) ==
    queue_response(h, HttpRes(200, StorageTestBody(status)))

(* The Content-Length rejections of handle_request *)
EarlyRejected(h) ==
    CASE h.content_length = "invalid" ->
            queue_response_internal(h, HttpRes(400, "invalid Content-Length"),
                                    "early")
      [] h.content_length = "too_large" ->
            queue_response_internal(h, HttpRes(413, ""), "early")
      [] OTHER -> h

(* check_snode_headers, the prevalidate of a storage test *)
check_snode_headers(h, pre) ==
    CASE pre = "bad_signature" ->
            [queue_response_internal(h, HttpRes(0, "validate_snode_signature"),
                                     "prevalidate")
               EXCEPT !.replied = TRUE]
      [] pre = "rate_limited" ->
            [queue_response_internal(
                 h, HttpRes(429, "too many requests from this snode"),
                 "prevalidate")
               EXCEPT !.replied = TRUE]
      [] OTHER -> h

Prevalidations(endpoint) ==
    IF endpoint = "storage_test"
    THEN {"ok", "bad_signature", "rate_limited"}
    ELSE {"ok"}

handle_request(h, pre) ==
    LET early == EarlyRejected(h)
        data == [early EXCEPT !.alive = TRUE]
        checked == check_snode_headers(data, pre)
    IN [checked EXCEPT !.pc = "open", !.holders = {"onAborted", "onData"}]

(* HTTPSServer::error_response: the status and the body are written and *)
(* the response is ended                                                *)
error_response(h, status, body) ==
    [h EXCEPT !.written = Append(@, [res |-> HttpRes(status, body),
                                     by |-> "error_response",
                                     aborted |-> h.aborted]),
              !.ended = TRUE, !.pc = "rejected"]

(* process_storage_rpc_req without the rate limit *)
process_storage_rpc_req_unlimited(h, pre) ==
    IF ~h.client.ipv4
    THEN error_response(h, 400, "Bad Request")
    ELSE IF h.client.long_poll
    THEN error_response(h, 410, "long polling is no longer supported")
    ELSE handle_request(h, pre)

(* process_storage_rpc_req up to the end of handle_request *)
process_storage_rpc_req(h, pre) ==
    IF ~h.client.ipv4
    THEN error_response(h, 400, "Bad Request")
    ELSE IF h.client.limited
    THEN error_response(h, 429, "Too Many Requests")
    ELSE IF h.client.long_poll
    THEN error_response(h, 410, "long polling is no longer supported")
    ELSE handle_request(h, pre)

(* The source address and the headers of a client request *)
ClientGates(endpoint) ==
    IF endpoint = "storage_rpc"
    THEN [ipv4 : BOOLEAN, limited : BOOLEAN, long_poll : BOOLEAN]
    ELSE {HttpsOff.client}

HttpsInit ==
    /\ CoreIdle
    /\ FilterIdle
    /\ ConnIdle
    /\ EventsIdle
    /\ RosterIdle
    /\ MoreIdle
    /\ \E e \in Endpoints, c \in ContentLengths :
          \E g \in ClientGates(e) :
             https = [HttpsOff EXCEPT !.pc = "new", !.endpoint = e,
                                      !.content_length = c, !.client = g]

(* loop thread: the endpoint's handler up to the end of handle_request *)
HandleRequest ==
    /\ https.pc = "new"
    /\ \E pre \in Prevalidations(https.endpoint) :
          https' = IF https.endpoint = "storage_rpc"
                   THEN process_storage_rpc_req(https, pre)
                   ELSE handle_request(https, pre)
    /\ UNCHANGED <<coreVars, filter, conn, events, roster, moreVars>>

(* loop thread: the connection went away; res.onAborted's handler runs and  *)
(* the library destroys the handlers of the response.                       *)
OnAborted ==
    /\ https.pc = "open"
    /\ "onAborted" \in https.holders
    /\ https' = Released([https EXCEPT
                            !.aborted = TRUE,
                            !.holders = @ \ {"onAborted", "onData"}])
    /\ UNCHANGED <<coreVars, filter, conn, events, roster, moreVars>>

(* loop thread: the last chunk of the body arrived; ready(std::move(data)) *)
OnData ==
    /\ https.pc = "open"
    /\ "onData" \in https.holders
    /\ \E valid \in BOOLEAN :
          LET h == [https EXCEPT !.holders = @ \ {"onData"},
                                 !.body_read = TRUE] IN
          https' =
            Released(
              IF https.endpoint = "storage_test" /\ ~valid
              THEN queue_response(h, HttpRes(0, "validate_snode_signature"))
              ELSE [h EXCEPT !.holders = @ \cup {"task"},
                             !.task = "queued"])
    /\ UNCHANGED <<coreVars, filter, conn, events, roster, moreVars>>

(* loop thread: a connection whose response was ended before the handlers   *)
(* were attached is closed by the library without an abort.                 *)
ConnectionDone ==
    /\ https.pc = "open"
    /\ https.ended
    /\ "onAborted" \in https.holders
    /\ https' = Released([https EXCEPT
                            !.holders = @ \ {"onAborted", "onData"}])
    /\ UNCHANGED <<coreVars, filter, conn, events, roster, moreVars>>

(* worker thread: the injected task reads data->replied and data->aborted *)
WorkerTaskBegin ==
    /\ https.task = "queued"
    /\ https' =
         IF https.replied \/ https.aborted
         THEN Released([https EXCEPT !.task = "done",
                                     !.holders = @ \ {"task"}])
         ELSE [https EXCEPT !.task = "running"]
    /\ UNCHANGED <<coreVars, filter, conn, events, roster, moreVars>>

(* The rest of the storage test task: the header and body checks, the      *)
(* first attempt, the timer or the reply.                                   *)
StorageTestTask(h, request_ok, status) ==
    IF ~request_ok
    THEN [queue_response(h, HttpRes(400, "bad snode test request"))
            EXCEPT !.task = "done", !.holders = @ \ {"task"}]
    ELSE LET c == [h EXCEPT !.sn_calls = @ + 1, !.task = "done"] IN
         IF status = "RETRY"
         THEN [c EXCEPT !.timer = "armed",
                        !.holders = (@ \ {"task"}) \cup {"timer"}]
         ELSE [handle_storage_test_impl(c, status)
                 EXCEPT !.holders = @ \ {"task"}]

RECURSIVE QueueEach(_, _)
QueueEach(h, rs) ==
    IF rs = <<>> THEN h
    ELSE QueueEach(queue_response(h, Head(rs)), Tail(rs))

(* The rest of the client RPC task: process_client_req calls the callback  *)
(* for each of cbs and may then throw.                                      *)
StorageRpcTask(h, cbs, exc) ==
    LET called == QueueEach(h, cbs)
        caught == IF exc
                  THEN queue_response(called,
                           HttpRes(500, "Exception caught with processing"))
                  ELSE called
    IN [caught EXCEPT !.task = "done", !.holders = @ \ {"task"},
                      !.client_calls = @ + 1]

(* The rest of the onion task: a parse error, a reply made at once, or the *)
(* callback kept for the reply of the next hop.                             *)
OnionTask(h, parse_ok, cbs, kept) ==
    IF ~parse_ok
    THEN [queue_response(h, HttpRes(400, "Error parsing onion request"))
            EXCEPT !.task = "done", !.holders = @ \ {"task"}]
    ELSE IF kept
    THEN [h EXCEPT !.task = "done",
                   !.holders = (@ \ {"task"}) \cup {"cb"}]
    ELSE [QueueEach(h, cbs) EXCEPT !.task = "done",
                                   !.holders = @ \ {"task"}]

Replies == { HttpRes(200, "result"), HttpRes(400, "invalid json") }

CallbackRuns ==
    { <<>> } \cup { <<r>> : r \in Replies }
    \cup { <<HttpRes(400, "invalid json"), r>> : r \in Replies }

(* worker thread: the injected task past its first line *)
WorkerTaskRun ==
    /\ https.task = "running"
    /\ \/ /\ https.endpoint = "storage_test"
          /\ \E request_ok \in BOOLEAN, status \in MessageTestStatus :
                https' = Released(StorageTestTask(https, request_ok, status))
       \/ /\ https.endpoint = "storage_rpc"
          /\ \E cbs \in CallbackRuns, exc \in BOOLEAN :
                https' = Released(StorageRpcTask(https, cbs, exc))
       \/ /\ https.endpoint = "onion_req"
          /\ \E parse_ok \in BOOLEAN, cbs \in CallbackRuns, kept \in BOOLEAN :
                https' = Released(OnionTask(https, parse_ok, cbs, kept))
    /\ UNCHANGED <<coreVars, filter, conn, events, roster, moreVars>>

(* worker thread: the reply of the next hop reaches the onion callback *)
OnionCallback ==
    /\ "cb" \in https.holders
    /\ \E r \in Replies :
          https' = Released([queue_response(https, r)
                               EXCEPT !.holders = @ \ {"cb"}])
    /\ UNCHANGED <<coreVars, filter, conn, events, roster, moreVars>>

(* worker thread: a tick of the retry timer reads data->replied and        *)
(* data->aborted, and the clock.                                            *)
TimerTickBegin ==
    /\ https.timer = "armed"
    /\ https.tick = "idle"
    /\ IF https.replied \/ https.aborted
       THEN https' = Released([https EXCEPT !.timer = "cancelled",
                                            !.holders = @ \ {"timer"}])
       ELSE \E late \in 1..2 :
               /\ https.elapsed + late <= RetryPeriodTicks + 1
               /\ https' = [https EXCEPT !.tick = "run",
                                         !.elapsed = @ + late]
    /\ UNCHANGED <<coreVars, filter, conn, events, roster, moreVars>>

(* The tick that goes on retrying whatever the clock says. *)
TimerTick_noperiod(h, status) ==
    LET c == [h EXCEPT !.sn_calls = @ + 1,
                       !.late_calls =
                           @ + (IF h.replied \/ h.aborted THEN 1 ELSE 0),
                       !.tick = "idle"]
        d == IF status = "RETRY"
             THEN c
             ELSE [handle_storage_test_impl(c, status)
                     EXCEPT !.timer = "cancelled",
                            !.holders = @ \ {"timer"}]
    IN [d EXCEPT !.last = [status |-> status, elapsed |-> h.elapsed,
                           queued |-> d.queued - h.queued,
                           timer |-> d.timer,
                           res |-> SubSeq(d.deferred, Len(h.deferred) + 1,
                                          Len(d.deferred))]]

(* The rest of a tick with the status the service node returned. *)
TimerTick(h, status) ==
    LET c == [h EXCEPT !.sn_calls = @ + 1,
                       !.late_calls =
                           @ + (IF h.replied \/ h.aborted THEN 1 ELSE 0),
                       !.tick = "idle"]
        d == IF status = "RETRY" /\ h.elapsed < RetryPeriodTicks
             THEN c
             ELSE [handle_storage_test_impl(c, status)
                     EXCEPT !.timer = "cancelled",
                            !.holders = @ \ {"timer"}]
    IN [d EXCEPT !.last = [status |-> status, elapsed |-> h.elapsed,
                           queued |-> d.queued - h.queued,
                           timer |-> d.timer,
                           res |-> SubSeq(d.deferred, Len(h.deferred) + 1,
                                          Len(d.deferred))]]

(* worker thread: the tick past its first line *)
TimerTickRun ==
    /\ https.tick = "run"
    /\ \E status \in MessageTestStatus :
          https' = Released(Bind(TimerTick(https, status), LAMBDA x : x))
    /\ UNCHANGED <<coreVars, filter, conn, events, roster, moreVars>>

(* The head of the loop's queue run without a look at aborted. *)
RunDeferred_unchecked(h) ==
    LET f == Head(h.deferred)
        rest == [h EXCEPT !.deferred = Tail(@)]
    IN queue_response_internal(rest, f.res,
                               IF f.kind = "busy" THEN "destructor"
                               ELSE "queue_response")

(* The lambda at the head of the loop's queue. *)
RunDeferred(h) ==
    LET f == Head(h.deferred)
        rest == [h EXCEPT !.deferred = Tail(@)]
    IN IF f.kind = "busy"
       THEN queue_response_internal(rest, f.res, "destructor")
       ELSE IF rest.aborted THEN rest
       ELSE queue_response_internal(rest, f.res, "queue_response")

(* loop thread: a lambda handed to loop_defer runs *)
LoopDeferred ==
    /\ https.deferred # <<>>
    /\ https' = Released(RunDeferred(https))
    /\ UNCHANGED <<coreVars, filter, conn, events, roster, moreVars>>

HttpsNext ==
    \/ HandleRequest
    \/ OnAborted
    \/ OnData
    \/ ConnectionDone
    \/ WorkerTaskBegin
    \/ WorkerTaskRun
    \/ OnionCallback
    \/ TimerTickBegin
    \/ TimerTickRun
    \/ LoopDeferred

SpecHttps == HttpsInit /\ [][HttpsNext]_vars

(* The request's call_data is gone and nothing waits in the loop's queue. *)
RequestOver ==
    https.pc = "open" /\ ~https.alive /\ https.deferred = <<>>

\* C13: for every request that goes through handle_request and whose
\* connection is never aborted, exactly one response is written to its
\* HttpResponse over the lifetime of the request: never two, counting the
\* Content-Length rejections, the prevalidate rejections, queue_response and
\* the call_data destructor, and at least one once the call_data is gone.
C13_ExactlyOneResponse ==
    ~https.aborted =>
        /\ Len(https.written) <= 1
        /\ RequestOver => Len(https.written) = 1

\* C14: once the abort callback of a request has run, nothing executed
\* afterwards writes to the request's HttpResponse: no response deferred by
\* queue_response, no 503 deferred by the call_data destructor and no reply
\* of a storage test timer.
C14_NoWriteAfterAbort ==
    \A i \in 1..Len(https.written) : ~https.written[i].aborted

C14_Witness ==
    /\ https.aborted
    /\ https.replied
    /\ https.timer = "cancelled"
    /\ https.last.queued = 1
    /\ https.deferred = <<>>
    /\ https.written = <<>>

\* C15: once the retry timer is installed, at the first tick at which the
\* service node returns a status other than RETRY the timer is cancelled and
\* exactly one response is queued; and after the request has been replied to
\* or aborted, the service node's process_storage_test_req is never called
\* again for that request.
C15_TimerStopsAndNoLateCall ==
    /\ (https.last.status \notin {"", "RETRY"})
          => https.last.timer = "cancelled" /\ https.last.queued = 1
    /\ https.late_calls = 0


(* The scheduling of the workers, of the timer and of the loop: an         *)
(* injected task is run, an armed timer ticks, a deferred lambda is run.    *)
SpecHttpsLive ==
    /\ HttpsInit
    /\ [][HttpsNext]_vars
    /\ WF_vars(WorkerTaskBegin)
    /\ WF_vars(WorkerTaskRun)
    /\ WF_vars(TimerTickBegin)
    /\ WF_vars(TimerTickRun)
    /\ WF_vars(LoopDeferred)

(* What a tick that got RETRY does, by the time elapsed since the first    *)
(* attempt.                                                                 *)
RetryTickRule ==
    https.last.status = "RETRY" =>
        IF https.last.elapsed < RetryPeriodTicks
        THEN https.last.queued = 0 /\ https.last.timer = "armed"
        ELSE /\ https.last.timer = "cancelled"
             /\ https.last.queued = 1
             /\ https.last.res = <<[kind |-> "response",
                                    res |-> HttpRes(200, "other")]>>

StorageTestValidated ==
    https.endpoint = "storage_test" /\ https.task = "queued"

StorageTestAnswered ==
    \/ https.aborted
    \/ \E i \in 1..Len(https.written) :
          https.written[i].by \in {"queue_response", "prevalidate"}

\* C16: if every attempt returns RETRY the retries go on at each timer tick
\* while the time since the first attempt is below the retry period, and the
\* first tick at or past the period answers 200 with status other; hence
\* every validated storage test that is not aborted is eventually answered.
C16_RetryUntilPeriodThenAnswered ==
    /\ []RetryTickRule
    /\ (StorageTestValidated ~> StorageTestAnswered)

C16_Witness ==
    /\ ~https.aborted
    /\ https.last.status = "RETRY"
    /\ https.sn_calls >= RetryPeriodTicks
    /\ \E i \in 1..Len(https.written) :
          /\ https.written[i].res = HttpRes(200, "other")
          /\ https.written[i].by = "queue_response"


-----------------------------------------------------------------------------
(* The connection_t front-end (http_connection.cpp) serving a storage test *)

connection_write_response(c) ==
    [c EXCEPT !.written = Append(@, [result |-> c.result, body |-> c.body])]

(* connection_t::process_storage_test_req; elapsed is the time since the   *)
(* connection was made.                                                     *)
connection_process_storage_test_req(c0, status) ==
    LET c == [c0 EXCEPT !.sn_calls = @ + 1] IN
    CASE status = "SUCCESS" ->
            connection_write_response(
                [c EXCEPT !.delay_response_ = TRUE, !.pc = "done",
                          !.last = status, !.result = 200, !.body = "OK"])
      [] status = "RETRY" /\ c.elapsed < RetryPeriodTicks ->
            [c EXCEPT !.delay_response_ = TRUE, !.repetition_count_ = @ + 1,
                      !.pc = "waiting", !.last = status]
      [] status = "WRONG_REQ" ->
            [c EXCEPT !.pc = "done", !.last = status, !.result = 200,
                      !.body = "wrong request"]
      [] OTHER ->
            [c EXCEPT !.pc = "done", !.last = status, !.result = 200,
                      !.body = "other"]

(* What a peer request may fail at in validate_snode_request *)
SnodeAuths ==
    {"ok", "no_headers", "unknown_snode", "bad_signature", "rate_limited"}

(* validate_snode_request: the response as it leaves it; the request is   *)
(* valid iff c.request.auth = "ok"                                         *)
connection_validate_snode_request(c) ==
    CASE c.request.auth = "no_headers" ->
            [c EXCEPT !.body = "Missing field in header"]
      [] c.request.auth = "unknown_snode" ->
            [c EXCEPT !.result = 401, !.body = "Unknown service node"]
      [] c.request.auth = "bad_signature" ->
            [c EXCEPT !.result = 401,
                      !.body = "Could not verify batch signature"]
      [] c.request.auth = "rate_limited" ->
            [c EXCEPT !.result = 429, !.body = "Too many requests"]
      [] OTHER -> c

(* process_request for /swarms/storage_test/v1 *)
connection_process_swarm_req(c, status) ==
    IF c.request.auth # "ok"
    THEN [connection_validate_snode_request(c) EXCEPT !.pc = "done"]
    ELSE IF ~c.request.json
    THEN [c EXCEPT !.pc = "done", !.result = 400, !.body = "invalid json"]
    ELSE IF ~c.request.fields
    THEN [c EXCEPT !.pc = "done", !.result = 400,
                   !.body = "Bad snode test request: missing fields in json"]
    ELSE IF ~c.request.tester
    THEN [c EXCEPT !.pc = "done", !.result = 400]
    ELSE connection_process_storage_test_req(c, status)

(* The on_data of read_request *)
connection_on_data(c, status) ==
    LET p == connection_process_swarm_req(c, status) IN
    IF p.delay_response_ THEN p ELSE connection_write_response(p)

ConnRequests ==
    [auth : SnodeAuths, json : BOOLEAN, fields : BOOLEAN, tester : BOOLEAN]

ConnInit ==
    /\ CoreIdle
    /\ FilterIdle
    /\ HttpsIdle
    /\ EventsIdle
    /\ RosterIdle
    /\ MoreIdle
    /\ \E r \in ConnRequests :
          conn = [ConnOff EXCEPT !.pc = "reading", !.request = r,
                                 !.open = TRUE, !.result = 500]

(* The request has been read: on_data runs *)
ConnOnData ==
    /\ conn.pc = "reading"
    /\ \E status \in MessageTestStatus :
          \E c \in {connection_on_data(conn, status)} : conn' = c
    /\ UNCHANGED <<coreVars, filter, https, events, roster, moreVars>>

(* repeat_timer_ fires *)
ConnRepeatTimer ==
    /\ conn.pc = "waiting"
    /\ \E status \in MessageTestStatus, late \in 1..2 :
          /\ conn.elapsed + late <= RetryPeriodTicks + 1
          /\ \E c \in {connection_process_storage_test_req(
                            [conn EXCEPT !.elapsed = @ + late], status)} :
                conn' = c
    /\ UNCHANGED <<coreVars, filter, https, events, roster, moreVars>>

(* deadline_ fires, or the write has completed: clean_up closes the socket *)
ConnCleanUp ==
    /\ conn.open
    /\ conn.pc # "reading"
    /\ conn' = [conn EXCEPT !.open = FALSE]
    /\ UNCHANGED <<coreVars, filter, https, events, roster, moreVars>>

ConnNext == ConnOnData \/ ConnRepeatTimer \/ ConnCleanUp

SpecConn == ConnInit /\ [][ConnNext]_vars

\* C17: in the connection_t front-end a storage test whose first attempt
\* returned RETRY is still answered: when a later retry returns SUCCESS or
\* WRONG_REQ, or RETRY persists until the period has elapsed, the 200
\* response it prepared is actually written to the connection.
C17_RetriedTestIsWritten ==
    (conn.pc = "done" /\ conn.repetition_count_ >= 1
     /\ conn.last \in {"SUCCESS", "WRONG_REQ", "RETRY"})
        => conn.written = <<[result |-> 200, body |-> conn.body]>>


-----------------------------------------------------------------------------
(* Swarm::derive_swarm_events (swarm.cpp) *)

swarm_exists(all, swarm) ==
    \E i \in 1..Len(all) : all[i].swarm_id = swarm

Swarm_is_existing_swarm(self, sid) ==
    \E i \in 1..Len(self.all_valid_swarms_) :
        self.all_valid_swarms_[i].swarm_id = sid

InSeq(x, q) == \E i \in 1..Len(q) : q[i] = x

(* The first swarm that has our_address_ among its snodes, or 0 *)
OurSwarmIt(self, swarms) ==
    LET found == { i \in 1..Len(swarms) :
                     InSeq(self.our_address_, swarms[i].snodes) }
    IN IF found = {} THEN 0
       ELSE CHOOSE i \in found : \A j \in found : i <= j

(* SameSwarmEvents reporting every swarm of the roster as new *)
SameSwarmEvents_allnew(self, swarms, ev) ==
    LET joined(sn_) == /\ ~InSeq(sn_, self.swarm_peers_)
                      /\ sn_ # self.our_address_
    IN [ev EXCEPT
          !.new_snodes = SelectSeq(ev.our_swarm_members, joined),
          !.new_swarms = [i \in 1..Len(swarms) |-> swarms[i].swarm_id]]

(* The part of derive_swarm_events for a node still in the same swarm *)
SameSwarmEvents(self, swarms, ev) ==
    LET joined(sn_) == /\ ~InSeq(sn_, self.swarm_peers_)
                      /\ sn_ # self.our_address_
        fresh(si) == ~Swarm_is_existing_swarm(self, si.swarm_id)
        added == SelectSeq(swarms, fresh)
    IN [ev EXCEPT
          !.new_snodes = SelectSeq(ev.our_swarm_members, joined),
          !.new_swarms = [i \in 1..Len(added) |-> added[i].swarm_id]]

(* derive_swarm_events taking a start for a move *)
derive_swarm_events_nostart(self, swarms) ==
    LET it == OurSwarmIt(self, swarms) IN
    IF it = 0 THEN [NoEvents EXCEPT !.our_swarm_id = INVALID_SWARM_ID]
    ELSE LET ev == [NoEvents EXCEPT
                      !.our_swarm_id = swarms[it].swarm_id,
                      !.our_swarm_members = swarms[it].snodes]
         IN IF self.cur_swarm_id_ # ev.our_swarm_id
            THEN [ev EXCEPT
                    !.dissolved = ~swarm_exists(swarms, self.cur_swarm_id_)]
            ELSE SameSwarmEvents(self, swarms, ev)

(* derive_swarm_events looking for new snodes after a move as well *)
derive_swarm_events_moved(self, swarms) ==
    LET it == OurSwarmIt(self, swarms) IN
    IF it = 0 THEN [NoEvents EXCEPT !.our_swarm_id = INVALID_SWARM_ID]
    ELSE LET ev == [NoEvents EXCEPT
                      !.our_swarm_id = swarms[it].swarm_id,
                      !.our_swarm_members = swarms[it].snodes]
         IN IF self.cur_swarm_id_ = INVALID_SWARM_ID THEN ev
            ELSE IF self.cur_swarm_id_ # ev.our_swarm_id
            THEN SameSwarmEvents(
                     self, swarms,
                     [ev EXCEPT !.dissolved =
                          ~swarm_exists(swarms, self.cur_swarm_id_)])
            ELSE SameSwarmEvents(self, swarms, ev)

derive_swarm_events(self, swarms) ==
    LET it == OurSwarmIt(self, swarms) IN
    IF it = 0 THEN [NoEvents EXCEPT !.our_swarm_id = INVALID_SWARM_ID]
    ELSE LET ev == [NoEvents EXCEPT
                      !.our_swarm_id = swarms[it].swarm_id,
                      !.our_swarm_members = swarms[it].snodes]
         IN IF self.cur_swarm_id_ = INVALID_SWARM_ID THEN ev
            ELSE IF self.cur_swarm_id_ # ev.our_swarm_id
            THEN [ev EXCEPT
                    !.dissolved = ~swarm_exists(swarms, self.cur_swarm_id_)]
            ELSE SameSwarmEvents(self, swarms, ev)

(* Rosters: every service node is in one swarm or in none. *)
Members == 1..MaxMembers

Record(n) == [pubkey_legacy |-> n]

Us == Record(1)

Placements == [Members -> NodeSwarmIds \cup {INVALID_SWARM_ID}]

RECURSIVE Ascending(_)
Ascending(S) ==
    IF S = {} THEN <<>>
    ELSE LET m == CHOOSE x \in S : \A y \in S : x <= y
         IN <<m>> \o Ascending(S \ {m})

MembersAt(place, id) ==
    LET ids == Ascending({ n \in Members : place[n] = id })
    IN [i \in 1..Len(ids) |-> Record(ids[i])]

RosterOf(place) ==
    LET ids == Ascending({ place[n] : n \in Members }
                         \ {INVALID_SWARM_ID})
    IN [i \in 1..Len(ids) |->
           [swarm_id |-> ids[i], snodes |-> MembersAt(place, ids[i])]]

(* The Swarm of this node after the roster of place was applied. *)
SwarmAfter(place) ==
    [our_address_ |-> Us,
     cur_swarm_id_ |-> place[1],
     swarm_peers_ |->
         IF place[1] = INVALID_SWARM_ID THEN <<>>
         ELSE SelectSeq(MembersAt(place, place[1]), LAMBDA r : r # Us),
     all_valid_swarms_ |-> RosterOf(place)]

EventsInit ==
    /\ CoreIdle
    /\ FilterIdle
    /\ HttpsIdle
    /\ ConnIdle
    /\ RosterIdle
    /\ MoreIdle
    /\ \E before \in Placements, after \in Placements :
          events = [pc |-> "call", self |-> SwarmAfter(before),
                    swarms |-> RosterOf(after), out |-> NoEvents]

CallDeriveSwarmEvents ==
    /\ events.pc = "call"
    /\ \E ev \in {derive_swarm_events(events.self, events.swarms)} :
          events' = [events EXCEPT !.pc = "done", !.out = ev]
    /\ UNCHANGED <<coreVars, filter, https, conn, roster, moreVars>>

EventsNext == CallDeriveSwarmEvents

SpecEvents == EventsInit /\ [][EventsNext]_vars

NewIds == { events.swarms[i].swarm_id : i \in 1..Len(events.swarms) }

InSomeSwarm ==
    \E i \in 1..Len(events.swarms) :
        \E j \in 1..Len(events.swarms[i].snodes) :
            events.swarms[i].snodes[j] = events.self.our_address_

Range(q) == { q[i] : i \in 1..Len(q) }

\* C19 as stated: derive_swarm_events sets dissolved to true if and only if
\* the node's previous swarm id is not among the swarm ids of the new
\* roster, also when the node is in no swarm of the new roster and when
\* the previous swarm id was INVALID_SWARM_ID.
C19_DissolvedIffIdGone ==
    events.pc = "done" =>
        (events.out.dissolved <=> events.self.cur_swarm_id_ \notin NewIds)

\* C19, amended: dissolved is true if and only if the node is in some swarm
\* of the new roster, its previous swarm id is a swarm id (not
\* INVALID_SWARM_ID) and that id is not among the swarm ids of the new
\* roster.
C19_DissolvedIffMovedFromGoneSwarm ==
    events.pc = "done" =>
        (events.out.dissolved <=>
            /\ InSomeSwarm
            /\ events.self.cur_swarm_id_ # INVALID_SWARM_ID
            /\ events.self.cur_swarm_id_ \notin NewIds)

C19_Witness ==
    /\ events.pc = "done"
    /\ events.out.dissolved
    /\ events.self.cur_swarm_id_ \notin NewIds

(* The members of this node's new swarm that were not its peers *)
Newcomers ==
    (Range(events.out.our_swarm_members)
         \ Range(events.self.swarm_peers_))
    \ {events.self.our_address_}

\* C20 as stated: whenever this node belongs to some swarm of the new
\* roster, new_snodes is the members of its new swarm that were not among
\* its previous peers, minus the node itself, also when the node has just
\* been moved to a different swarm.
C20_NewSnodesAlways ==
    (events.pc = "done" /\ InSomeSwarm) =>
        Range(events.out.new_snodes) = Newcomers

\* C20, amended: new_snodes is the members of the node's swarm that were
\* not among its previous peers, minus the node itself, when the node is
\* still in the swarm it was in; it is empty when the node has just started
\* or has been moved to a different swarm.
C20_NewSnodesOnlyInSameSwarm ==
    (events.pc = "done" /\ InSomeSwarm) =>
        IF events.self.cur_swarm_id_ = events.out.our_swarm_id
        THEN /\ Range(events.out.new_snodes) = Newcomers
             /\ Len(events.out.new_snodes) = Cardinality(Newcomers)
        ELSE events.out.new_snodes = <<>>

C20_Witness ==
    /\ events.pc = "done"
    /\ events.self.cur_swarm_id_ = events.out.our_swarm_id
    /\ events.out.new_snodes # <<>>


-----------------------------------------------------------------------------
(* Swarm::update_state, statement by statement, and Swarm::find_node *)

AllSnodes(swarms) ==
    UNION { { swarms[i].snodes[j].pubkey_legacy :
                j \in 1..Len(swarms[i].snodes) } : i \in 1..Len(swarms) }

RECURSIVE Flatten(_)
Flatten(swarms) ==
    IF swarms = <<>> THEN <<>>
    ELSE Head(swarms).snodes \o Flatten(Tail(swarms))

RosterPlacements == [Members -> {0, MAX_ID, INVALID_SWARM_ID}]

Unplaced(place) == { n \in Members : place[n] = INVALID_SWARM_ID }

RosterInit ==
    /\ CoreIdle
    /\ FilterIdle
    /\ HttpsIdle
    /\ ConnIdle
    /\ EventsIdle
    /\ MoreIdle
    /\ \E was \in RosterPlacements, now \in RosterPlacements,
          active \in BOOLEAN :
        \E decommissioned \in
               {<<>>} \cup { <<Record(n)>> : n \in Unplaced(now) } :
          roster =
            [pc |-> "start",
             all_valid_swarms_ |-> RosterOf(was),
             swarm_peers_ |-> SwarmAfter(was).swarm_peers_,
             all_funded_nodes_ |-> Members \ Unplaced(was),
             all_funded_ed25519_ |-> Members \ Unplaced(was),
             all_funded_x25519_ |-> Members \ Unplaced(was),
             swarms |-> RosterOf(now),
             decommissioned |-> decommissioned,
             members |->
                 derive_swarm_events(SwarmAfter(was),
                                     RosterOf(now)).our_swarm_members,
             active |-> active,
             todo |-> <<>>,
             before |-> Members \ Unplaced(was),
             read |-> NotRead]

(* swarm.cpp 196-218: apply_swarm_changes and the sanity check *)
UpdateApply ==
    /\ roster.pc = "start"
    /\ roster' =
         IF ~roster.active THEN [roster EXCEPT !.pc = "clear"]
         ELSE [roster EXCEPT
                 !.all_valid_swarms_ = roster.swarms,
                 !.pc = IF roster.members = <<>> THEN "done" ELSE "peers"]
    /\ UNCHANGED <<coreVars, filter, https, conn, events, moreVars>>

(* swarm.cpp 220-228: swarm_peers_ is cleared and refilled *)
UpdatePeers ==
    /\ roster.pc = "peers"
    /\ roster' =
         [roster EXCEPT
            !.swarm_peers_ = SelectSeq(roster.members, LAMBDA r : r # Us),
            !.pc = "clear"]
    /\ UNCHANGED <<coreVars, filter, https, conn, events, moreVars>>

(* swarm.cpp 231-233: the three indexes are cleared *)
UpdateClear ==
    /\ roster.pc = "clear"
    /\ \E todo \in {Flatten(roster.swarms) \o roster.decommissioned} :
         roster' =
           [roster EXCEPT
              !.all_funded_nodes_ = {},
              !.all_funded_ed25519_ = {},
              !.all_funded_x25519_ = {},
              !.todo = todo,
              !.pc = IF todo = <<>> THEN "done" ELSE "nodes"]
    /\ UNCHANGED <<coreVars, filter, https, conn, events, moreVars>>

(* swarm.cpp 235-243: one emplace into all_funded_nodes_ *)
UpdateEmplaceNode ==
    /\ roster.pc = "nodes"
    /\ roster' =
         [roster EXCEPT
            !.all_funded_nodes_ = @ \cup {Head(roster.todo).pubkey_legacy},
            !.todo = Tail(@),
            !.pc = IF Tail(roster.todo) = <<>> THEN "keys" ELSE "nodes"]
    /\ UNCHANGED <<coreVars, filter, https, conn, events, moreVars>>

(* swarm.cpp 245-248: one turn of the loop over all_funded_nodes_, whose *)
(* order is that of the unordered_map                                    *)
UpdateEmplaceKeys ==
    /\ roster.pc = "keys"
    /\ \E pk_ \in roster.all_funded_nodes_ \ roster.all_funded_ed25519_ :
         roster' =
           [roster EXCEPT
              !.all_funded_ed25519_ = @ \cup {pk_},
              !.all_funded_x25519_ = @ \cup {pk_},
              !.pc = IF roster.all_funded_ed25519_ \cup {pk_}
                         = roster.all_funded_nodes_
                     THEN "done" ELSE "keys"]
    /\ UNCHANGED <<coreVars, filter, https, conn, events, moreVars>>

(* find_node by legacy, ed25519 or x25519 key; node n has the keys n *)
find_node(r, kind, pk_) ==
    CASE kind = "legacy" -> pk_ \in r.all_funded_nodes_
      [] kind = "ed25519" ->
            pk_ \in r.all_funded_ed25519_ /\ pk_ \in r.all_funded_nodes_
      [] kind = "x25519" ->
            pk_ \in r.all_funded_x25519_ /\ pk_ \in r.all_funded_nodes_

(* A reader on another thread; Swarm takes no lock *)
ReadFindNode ==
    /\ roster.pc \notin {"off"}
    /\ \E kind \in {"legacy", "ed25519", "x25519"}, pk_ \in Members :
         roster' = [roster EXCEPT
                      !.read = [kind |-> kind, pk |-> pk_,
                                found |-> find_node(roster, kind, pk_)]]
    /\ UNCHANGED <<coreVars, filter, https, conn, events, moreVars>>

RosterNext ==
    \/ UpdateApply
    \/ UpdatePeers
    \/ UpdateClear
    \/ UpdateEmplaceNode
    \/ UpdateEmplaceKeys
    \/ ReadFindNode

SpecRoster == RosterInit /\ [][RosterNext]_vars

(* The nodes of the roster that update_state leaves behind *)
After ==
    AllSnodes(roster.swarms)
        \cup { roster.decommissioned[i].pubkey_legacy :
                 i \in 1..Len(roster.decommissioned) }

\* C18: a find_node that runs while update_state runs answers as the
\* complete roster of before the update or as the complete roster of after
\* it would: it finds a node that is in both, and never meets an empty or
\* partly rebuilt index.
C18_ReaderSeesBeforeOrAfter ==
    roster.read.kind # "none" =>
        \/ roster.read.found = (roster.read.pk \in roster.before)
        \/ roster.read.found = (roster.read.pk \in After)


-----------------------------------------------------------------------------
(* new_swarms of derive_swarm_events *)

KnownIds ==
    { events.self.all_valid_swarms_[i].swarm_id :
        i \in 1..Len(events.self.all_valid_swarms_) }

\* C21 as stated: for every prior state and every new roster, new_swarms is
\* the set of swarm ids of the new roster that are not in the previously
\* known roster, whether or not this node is in a swarm and whether or not
\* it changed swarm.
C21_NewSwarmsAlways ==
    events.pc = "done" =>
        Range(events.out.new_swarms) = NewIds \ KnownIds

\* C21, amended: when this node is in a swarm of the new roster and that is
\* the swarm it was in, new_swarms lists, each once, the swarm ids of the
\* new roster that are not in the previously known roster; when the node is
\* in no swarm, has only just started or has changed swarm, new_swarms is
\* empty.
C21_NewSwarmsOnlyInSameSwarm ==
    events.pc = "done" =>
        IF InSomeSwarm /\ events.self.cur_swarm_id_ = events.out.our_swarm_id
        THEN /\ Range(events.out.new_swarms) = NewIds \ KnownIds
             /\ Len(events.out.new_swarms) = Cardinality(NewIds \ KnownIds)
        ELSE events.out.new_swarms = <<>>

C21_Witness ==
    /\ events.pc = "done"
    /\ InSomeSwarm
    /\ events.self.cur_swarm_id_ = events.out.our_swarm_id
    /\ events.out.new_swarms # <<>>
    /\ NewIds \cap KnownIds # {}


-----------------------------------------------------------------------------
(* apply_ips and Swarm::apply_swarm_changes (swarm.cpp) *)

(* The value the first argument has after the call *)
update_if_changed(val, new_val, ignore_val) ==
    IF new_val # ignore_val /\ new_val # val THEN new_val ELSE val

(* unordered_map::emplace keeps the first record of a key *)
get_snode_map_from_swarms(swarms) ==
    LET all == Flatten(swarms)
        keys == { all[i].pubkey_legacy : i \in 1..Len(all) }
    IN [k \in keys |->
          all[CHOOSE i \in 1..Len(all) :
                 /\ all[i].pubkey_legacy = k
                 /\ \A j \in 1..(i - 1) : all[j].pubkey_legacy # k]]

apply_ips(swarms_to_keep, other_swarms) ==
    LET other_snode_map == get_snode_map_from_swarms(other_swarms)
        merged(snode) ==
            IF snode.pubkey_legacy \in DOMAIN other_snode_map
            THEN LET sn_ == other_snode_map[snode.pubkey_legacy]
                 IN [snode EXCEPT
                       !.ip = update_if_changed(@, sn_.ip, 0),
                       !.port = update_if_changed(@, sn_.port, 0),
                       !.lmq_port = update_if_changed(@, sn_.lmq_port, 0)]
            ELSE snode
    IN [i \in 1..Len(swarms_to_keep) |->
          [swarms_to_keep[i] EXCEPT
             !.snodes = [j \in 1..Len(swarms_to_keep[i].snodes) |->
                           merged(swarms_to_keep[i].snodes[j])]]]

Swarm_apply_swarm_changes(all_valid_swarms_, new_swarms) ==
    apply_ips(new_swarms, all_valid_swarms_)

Addrs == 0..MaxAddr

SnRecords(n) ==
    [pubkey_legacy : {n}, ip : Addrs, port : Addrs, lmq_port : Addrs]

(* Rosters of one swarm: every snode is in it, with some address, or not *)
RECURSIVE SnodeLists(_)
SnodeLists(n) ==
    IF n = 0 THEN {<<>>}
    ELSE LET shorter == SnodeLists(n - 1)
         IN shorter \cup { q \o <<r>> : q \in shorter, r \in SnRecords(n) }

AddrRosters ==
    { IF q = <<>> THEN <<>> ELSE <<[swarm_id |-> 0, snodes |-> q]>> :
        q \in SnodeLists(MaxSnodes) }

ApplyInit ==
    /\ CoreIdle
    /\ LaterIdle
    /\ OxendIdle
    /\ SessionIdle
    /\ CombinedIdle
    /\ ServerIdle
    /\ RequestIdle
    /\ LimiterIdle
    /\ OwnIdle
    /\ LifeIdle
    /\ \E prior \in AddrRosters, new_swarms \in AddrRosters :
          applied = [pc |-> "call", all_valid_swarms_ |-> prior,
                     new_swarms |-> new_swarms, prior |-> prior]

CallApplySwarmChanges ==
    /\ applied.pc = "call"
    /\ \E o \in {Swarm_apply_swarm_changes(applied.all_valid_swarms_,
                                            applied.new_swarms)} :
          applied' = [applied EXCEPT !.pc = "done", !.all_valid_swarms_ = o]
    /\ UNCHANGED <<coreVars, laterVars, oxend, session, combined, server,
                 request,
                 limiter,
                 own,
                 life>>

ApplyNext == CallApplySwarmChanges

SpecApply == ApplyInit /\ [][ApplyNext]_vars

Keys(swarms) ==
    [i \in 1..Len(swarms) |->
       [swarm_id |-> swarms[i].swarm_id,
        snodes |-> [j \in 1..Len(swarms[i].snodes) |->
                      swarms[i].snodes[j].pubkey_legacy]]]

RecordsOf(swarms) == Range(Flatten(swarms))

(* The value a field shall have: the new one unless that is the default *)
Carried(new_val, prior_val) == IF new_val # 0 THEN new_val ELSE prior_val

\* C22: after apply_swarm_changes(new_roster) the stored roster has exactly
\* the swarm ids and members of new_roster, and for every snode in both
\* the prior and the new roster each of ip, port, lmq_port is the new
\* roster's value when that is not the default, and the prior value only
\* when the new value is the default.
C22_NewAddressWins ==
    applied.pc = "done" =>
        /\ Keys(applied.all_valid_swarms_) = Keys(applied.new_swarms)
        /\ \A now \in RecordsOf(applied.new_swarms),
              was \in RecordsOf(applied.prior),
              got \in RecordsOf(applied.all_valid_swarms_) :
              (now.pubkey_legacy = was.pubkey_legacy
                  /\ got.pubkey_legacy = now.pubkey_legacy) =>
                 /\ got.ip = Carried(now.ip, was.ip)
                 /\ got.port = Carried(now.port, was.port)
                 /\ got.lmq_port = Carried(now.lmq_port, was.lmq_port)


-----------------------------------------------------------------------------
(* Which peer requests reach the storage test handler *)

\* C23: the storage test handler of the service node is invoked for a peer
\* request only if the request carried the sender and signature headers,
\* the sender is a known snode, the signature verified and the rate limit
\* was not exceeded; every other request is rejected with 401 (429 for the
\* rate limit) and the handler is never run.
C23_HandlerOnlyAfterAuth ==
    /\ conn.sn_calls > 0 => conn.request.auth = "ok"
    /\ (conn.pc = "done" /\ conn.request.auth # "ok") =>
          /\ conn.sn_calls = 0
          /\ Len(conn.written) = 1
          /\ conn.written[1].result =
                IF conn.request.auth = "rate_limited" THEN 429 ELSE 401


-----------------------------------------------------------------------------
(* RequestHandler::process_oxend_request (request_handler.cpp) *)

(* A const char*: where the characters are, and what they are.  A string  *)
(* literal is in the program's read-only data; the characters of a        *)
(* std::string are in the string's own buffer.                            *)
Literal(text) == [at |-> "literal", text |-> text]

c_str(str) == [at |-> "string", text |-> str]

(* std::unordered_set{"get_service_nodes", "ons_resolve"} is deduced as a *)
(* set of const char*, hashed and compared as pointers                    *)
allowed_endpoints == {Literal("get_service_nodes"), Literal("ons_resolve")}

count(set, key) == IF key \in set THEN 1 ELSE 0

oxend_request_call(params) ==
    [endpoint |-> <<"rpc.", params.endpoint.s>>,
     params |-> params.oxend_params]

(* What process_oxend_request has done when it returns: the replies it    *)
(* made through cb and the requests it handed to oxend_request            *)
process_oxend_request(params) ==
    IF params.endpoint.t # "string"
    THEN [cbs |-> <<TextResponse(400, "missing 'endpoint'")>>,
          forwarded |-> <<>>]
    ELSE IF count(allowed_endpoints, c_str(params.endpoint.s)) = 0
    THEN [cbs |-> <<TextResponse(400, "Endpoint not allowed")>>,
          forwarded |-> <<>>]
    ELSE IF params.oxend_params \notin {"object", "empty_object"}
    THEN [cbs |-> <<TextResponse(400, "missing 'oxend_params'")>>,
          forwarded |-> <<>>]
    ELSE [cbs |-> <<>>, forwarded |-> <<oxend_request_call(params)>>]

OxendEndpoints ==
    {[t |-> "absent", s |-> ""], [t |-> "number", s |-> ""],
     [t |-> "null", s |-> ""]}
    \cup [t : {"string"},
          s : {"get_service_nodes", "ons_resolve", "", "get_info",
               "flush_txpool", "GET_SERVICE_NODES", "rpc.ons_resolve",
               "ons_resolve ", "get_service_nodes,ons_resolve"}]

OxendParamKinds ==
    {"absent", "object", "empty_object", "array", "string", "null"}

OxendInit ==
    /\ CoreIdle
    /\ LaterIdle
    /\ AppliedIdle
    /\ SessionIdle
    /\ CombinedIdle
    /\ ServerIdle
    /\ RequestIdle
    /\ LimiterIdle
    /\ OwnIdle
    /\ LifeIdle
    /\ \E e \in OxendEndpoints, q \in OxendParamKinds :
          oxend = [pc |-> "call",
                   params |-> [endpoint |-> e, oxend_params |-> q],
                   cbs |-> <<>>, forwarded |-> <<>>]

CallProcessOxendRequest ==
    /\ oxend.pc = "call"
    /\ \E o \in {process_oxend_request(oxend.params)} :
          oxend' = [oxend EXCEPT !.pc = "done", !.cbs = o.cbs,
                                 !.forwarded = o.forwarded]
    /\ UNCHANGED <<coreVars, laterVars, applied, session, combined, server,
                 request,
                 limiter,
                 own,
                 life>>

OxendNext == CallProcessOxendRequest

SpecOxend == OxendInit /\ [][OxendNext]_vars

\* C24: process_oxend_request forwards a call to the daemon if and only if
\* endpoint is a string equal to get_service_nodes or ons_resolve and
\* oxend_params is an object; what it forwards then is rpc.<endpoint>, and
\* nothing is forwarded for any other endpoint.
C24_ForwardIffAllowed ==
    oxend.pc = "done" =>
        IF /\ oxend.params.endpoint.t = "string"
           /\ oxend.params.endpoint.s \in {"get_service_nodes", "ons_resolve"}
           /\ oxend.params.oxend_params \in {"object", "empty_object"}
        THEN /\ Len(oxend.forwarded) = 1
             /\ oxend.forwarded[1].endpoint
                    = <<"rpc.", oxend.params.endpoint.s>>
        ELSE oxend.forwarded = <<>>


-----------------------------------------------------------------------------
(* process_store: when the persistence layer is called *)

StoreChecksPass ==
    /\ \A f \in {"pubKey", "ttl", "timestamp", "data"} :
          rpc.params[f].present /\ rpc.params[f].str
    /\ rpc.params.pubKey.created
    /\ rpc.params.data.size <= MAX_MESSAGE_BODY
    /\ Swarm_is_pubkey_for_us(sn, rpc.params.pubKey.words)
    /\ rpc.params.ttl.valid
    /\ rpc.params.timestamp.valid

StoredReply == Response(200, "json", "difficulty", <<>>)

-----------------------------------------------------------------------------
(* Client requests turned away before they are read *)

TurnedAway ==
    /\ https.endpoint = "storage_rpc"
    /\ https.pc \notin {"off", "new"}
    /\ ~https.client.ipv4 \/ https.client.limited \/ https.client.long_poll

\* C26: a client request to /storage_rpc/v1 whose source address is not an
\* IPv4 address is answered 400, one whose address is rate-limited 429 and
\* one that carries the long-poll header 410 (in this order of precedence);
\* its body is never read, no call_data is made for it and
\* process_client_req is never invoked for it.
C26_TurnedAwayUnread ==
    TurnedAway =>
        /\ Len(https.written) = 1
        /\ https.written[1].res.status =
              (IF ~https.client.ipv4 THEN 400
               ELSE IF https.client.limited THEN 429 ELSE 410)
        /\ ~https.body_read
        /\ ~https.alive
        /\ https.task = "none"
        /\ https.client_calls = 0

C26_Witness ==
    /\ TurnedAway
    /\ https.client.ipv4
    /\ https.client.limited
    /\ https.written # <<>>
    /\ https.written[1].res.status = 429

\* C27: an HTTPS request whose Content-Length is not a valid integer or is
\* larger than the maximum is answered once, with 400 or 413, and after
\* that no call_data is made for it, its body is not accumulated, and it
\* reaches neither the ready callback nor a worker task.
C27_RejectedLengthGoesNoFurther ==
    (https.content_length \in {"invalid", "too_large"}
     /\ https.pc \notin {"off", "new"} /\ ~TurnedAway) =>
        /\ Len(https.written) = 1
        /\ https.written[1].res.status =
              (IF https.content_length = "invalid" THEN 400 ELSE 413)
        /\ ~https.alive
        /\ https.holders = {}
        /\ ~https.body_read
        /\ https.task = "none"


-----------------------------------------------------------------------------
(* Outbound requests: make_https_request_to_sn, make_https_request and     *)
(* HttpsClientSession (https_client.cpp), make_http_request and            *)
(* HttpClientSession (http_connection.cpp).  pc names the asynchronous     *)
(* operation whose handler is pending; posted holds the callbacks handed   *)
(* to ioc.post, calls those that were invoked.                             *)

SessionKinds == {"https_to_sn", "https", "http"}

(* trigger_callback *)
trigger_callback(x, error) ==
    [x EXCEPT !.posted = Append(@, error),
              !.used_callback_ = TRUE,
              !.timer = IF @ = "armed" THEN "cancelled" ELSE @]

(* The constructor and start(): the connect and the deadline are pending *)
session_start(x) ==
    [x EXCEPT !.alive = TRUE, !.pc = "connect", !.timer = "armed"]

make_https_request_to_sn(x, known, resolved) ==
    IF ~known
    THEN [x EXCEPT !.calls = Append(@, "NO_REACH"), !.pc = "returned"]
    ELSE IF ~resolved THEN [x EXCEPT !.pc = "returned"]
    ELSE session_start(x)

make_http_request(x, resolved) ==
    IF ~resolved THEN [x EXCEPT !.pc = "returned"] ELSE session_start(x)

make_https_request(x) == [x EXCEPT !.pc = "resolve"]

resolve_handler(x, ec) ==
    IF ec
    THEN [x EXCEPT !.calls = Append(@, "ERROR_OTHER"), !.pc = "returned"]
    ELSE session_start(x)

(* The handler of async_connect in start() *)
connect_handler(x, ec) ==
    IF ec THEN [trigger_callback(x, "NO_REACH") EXCEPT !.pc = "none"]
    ELSE [x EXCEPT !.pc = IF x.kind = "http" THEN "write" ELSE "handshake"]

on_handshake(x, ec) ==
    IF ec THEN [x EXCEPT !.pc = "none"] ELSE [x EXCEPT !.pc = "write"]

on_write(x, ec) ==
    IF ec THEN [trigger_callback(x, "ERROR_OTHER") EXCEPT !.pc = "none"]
    ELSE [x EXCEPT !.pc = "read"]

(* on_read; the TLS session then closes the stream itself *)
on_read(x, ec, answer) ==
    LET error == IF ec THEN "ERROR_OTHER"
                 ELSE IF answer = "successful" THEN "NO_ERROR"
                 ELSE IF x.kind = "http" /\ answer = "failed"
                      THEN "HTTP_ERROR"
                 ELSE "ERROR_OTHER"
    IN [trigger_callback(x, error)
          EXCEPT !.pc = "none",
                 !.closed = IF x.kind = "http" THEN @ ELSE TRUE]

(* The destructor, once no handler holds the session *)
session_destructor(x) ==
    [x EXCEPT !.alive = FALSE, !.closed = TRUE,
              !.posted = IF x.used_callback_ THEN @
                         ELSE Append(@, "ERROR_OTHER")]

SessionInit ==
    /\ CoreIdle
    /\ LaterIdle
    /\ AppliedIdle
    /\ OxendIdle
    /\ CombinedIdle
    /\ ServerIdle
    /\ RequestIdle
    /\ LimiterIdle
    /\ OwnIdle
    /\ LifeIdle
    /\ \E kind \in SessionKinds :
          session = [SessionOff EXCEPT !.pc = "new", !.kind = kind]

MakeRequest ==
    /\ session.pc = "new"
    /\ \E known \in BOOLEAN, resolved \in BOOLEAN :
          session' =
            CASE session.kind = "https_to_sn" ->
                    make_https_request_to_sn(session, known, resolved)
              [] session.kind = "http" ->
                    make_http_request(session, resolved)
              [] OTHER -> make_https_request(session)
    /\ UNCHANGED <<coreVars, laterVars, applied, oxend, combined, server,
                 request,
                 limiter,
                 own,
                 life>>

ResolveHandler ==
    /\ session.pc = "resolve"
    /\ \E ec \in BOOLEAN : session' = resolve_handler(session, ec)
    /\ UNCHANGED <<coreVars, laterVars, applied, oxend, combined, server,
                 request,
                 limiter,
                 own,
                 life>>

(* An operation on a closed socket completes with an error *)
Completions == IF session.closed THEN {TRUE} ELSE BOOLEAN

ConnectHandler ==
    /\ session.pc = "connect"
    /\ \E ec \in Completions : session' = connect_handler(session, ec)
    /\ UNCHANGED <<coreVars, laterVars, applied, oxend, combined, server,
                 request,
                 limiter,
                 own,
                 life>>

OnHandshake ==
    /\ session.pc = "handshake"
    /\ \E ec \in Completions : session' = on_handshake(session, ec)
    /\ UNCHANGED <<coreVars, laterVars, applied, oxend, combined, server,
                 request,
                 limiter,
                 own,
                 life>>

OnWrite ==
    /\ session.pc = "write"
    /\ \E ec \in Completions : session' = on_write(session, ec)
    /\ UNCHANGED <<coreVars, laterVars, applied, oxend, combined, server,
                 request,
                 limiter,
                 own,
                 life>>

OnRead ==
    /\ session.pc = "read"
    /\ \E ec \in Completions,
          answer \in {"successful", "failed", "bad_signature"} :
          session' = on_read(session, ec, answer)
    /\ UNCHANGED <<coreVars, laterVars, applied, oxend, combined, server,
                 request,
                 limiter,
                 own,
                 life>>

(* The deadline expires: do_close, resp. clean_up, closes the socket *)
DeadlineTimer ==
    /\ session.timer = "armed"
    /\ session' = [session EXCEPT !.timer = "expired", !.closed = TRUE]
    /\ UNCHANGED <<coreVars, laterVars, applied, oxend, combined, server,
                 request,
                 limiter,
                 own,
                 life>>

(* The wait of a cancelled deadline completes with operation_aborted *)
DeadlineAborted ==
    /\ session.timer = "cancelled"
    /\ session' = [session EXCEPT !.timer = "aborted"]
    /\ UNCHANGED <<coreVars, laterVars, applied, oxend, combined, server,
                 request,
                 limiter,
                 own,
                 life>>

(* No handler is pending any more: the last shared_ptr goes away *)
SessionDestroyed ==
    /\ session.alive
    /\ session.pc = "none"
    /\ session.timer \notin {"armed", "cancelled"}
    /\ session' = session_destructor(session)
    /\ UNCHANGED <<coreVars, laterVars, applied, oxend, combined, server,
                 request,
                 limiter,
                 own,
                 life>>

(* The io_context runs a posted callback *)
RunPosted ==
    /\ session.posted # <<>>
    /\ session' = [session EXCEPT !.posted = Tail(@),
                                  !.calls = Append(@, Head(session.posted))]
    /\ UNCHANGED <<coreVars, laterVars, applied, oxend, combined, server,
                 request,
                 limiter,
                 own,
                 life>>

SessionNext ==
    \/ MakeRequest
    \/ ResolveHandler
    \/ ConnectHandler
    \/ OnHandshake
    \/ OnWrite
    \/ OnRead
    \/ DeadlineTimer
    \/ DeadlineAborted
    \/ SessionDestroyed
    \/ RunPosted

SpecSession == SessionInit /\ [][SessionNext]_vars

(* Nothing of the request is left that could still invoke the callback *)
RequestSettled ==
    /\ session.pc \in {"returned", "none"}
    /\ ~session.alive
    /\ session.posted = <<>>

\* C28: every outbound request started with make_http_request,
\* make_https_request_to_sn or make_https_request invokes its callback
\* exactly once: never twice, and once by the time nothing of the request
\* is pending any more, whether it succeeded or failed at the address
\* resolution, the connect, the handshake, the write, the read or the
\* deadline.
C28_CallbackExactlyOnce ==
    /\ Len(session.calls) + Len(session.posted) <= 1
    /\ RequestSettled => Len(session.calls) = 1


-----------------------------------------------------------------------------
(* The reply of a relay to a snode *)

(* The relay at the hop of last found its destination unknown *)
NextNodeUnknown ==
    /\ onion.channel = "onion"
    /\ onion.last.hop >= 1
    /\ onion.last.info.kind = "RelayToNode"
    /\ onion.last.info.next_node \notin KnownNodes

(* The relay at onion.hop has just been given the reply of upstream *)
RelayAnswered ==
    /\ onion.relay.hop >= 1
    /\ onion.relay.hop = onion.hop
    /\ onion.pc \in {"reply", "done"}

\* C29: the reply callback of a relay to a snode is invoked exactly once:
\* with 502 and nothing forwarded if the destination is not a known snode;
\* with 504 if the upstream request failed or timed out; with 500 if the
\* upstream reply has fewer than two parts or its first part is no integer;
\* otherwise with the upstream body under the upstream status.
C29_RelayReply ==
    /\ NextNodeUnknown =>
          /\ onion.last.cbs = <<TextResponse(502, "Next node not found")>>
          /\ onion.pc # "sent"
          /\ onion.hop <= onion.last.hop
    /\ RelayAnswered =>
          /\ Len(onion.cbs) = 1
          /\ LET up == onion.relay
                 out == onion.cbs[1]
             IN IF ~up.success
                THEN out = TextResponse(504, "Request time out")
                ELSE IF Len(up.data) < 2
                THEN out = TextResponse(500, "Invalid response from snode")
                ELSE IF ~up.data[1].int
                THEN out.status = 500
                ELSE /\ out.status = up.data[1].code
                     /\ [out EXCEPT !.status = 0]
                           = [up.data[2].res EXCEPT !.status = 0]

C29_Witness ==
    /\ RelayAnswered
    /\ onion.relay.success
    /\ Len(onion.relay.data) = 2
    /\ onion.relay.data[1].int
    /\ onion.cbs[1].status = onion.relay.data[1].code
    /\ onion.cbs[1].status # 200


-----------------------------------------------------------------------------
(* parse_combined_payload over the bytes of a payload                      *)
(* | <4 bytes>: N | <N bytes>: ciphertext | <rest>: json as utf8 |         *)

MaxPayload == 6
MaxCipher == 2
MaxNum == 12
MaxDepth == 1

(* nlohmann::json values: null, the empty object, numbers and arrays *)
JsonNull == [t |-> "null", n |-> 0, e |-> <<>>]
JsonObject == [t |-> "obj", n |-> 0, e |-> <<>>]
JsonNumber(x) == [t |-> "num", n |-> x, e |-> <<>>]
JsonArray(els) == [t |-> "arr", n |-> 0, e |-> els]

JsonFail == [ok |-> FALSE, v |-> JsonNull, next |-> 0]

RECURSIVE skip_ws(_, _)
(* space, tab, line feed and carriage return are skipped between tokens *)
skip_ws(s, i) ==
    IF i <= Len(s) /\ s[i] \in {32, 9, 10, 13} THEN skip_ws(s, i + 1) ELSE i

RECURSIVE scan_digits(_, _, _)
scan_digits(s, i, acc) ==
    IF i <= Len(s) /\ s[i] \in 48..57
    THEN scan_digits(s, i + 1, 10 * acc + (s[i] - 48))
    ELSE [ok |-> TRUE, v |-> JsonNumber(acc), next |-> i]

RECURSIVE json_value(_, _)
(* One JSON value starting at or after position from.  The texts here hold *)
(* no quote, colon or comma: an object is empty, an array has at most one  *)
(* element, a number is a run of digits without a leading zero.            *)
json_value(s, from) ==
    \* 123 {   125 }   91 [   93 ]   48..57 digits
    LET i == skip_ws(s, from) IN
    IF i > Len(s) THEN JsonFail
    ELSE IF s[i] = 123
    THEN LET j == skip_ws(s, i + 1) IN
         IF j <= Len(s) /\ s[j] = 125
         THEN [ok |-> TRUE, v |-> JsonObject, next |-> j + 1]
         ELSE JsonFail
    ELSE IF s[i] = 91
    THEN LET j == skip_ws(s, i + 1) IN
         IF j <= Len(s) /\ s[j] = 93
         THEN [ok |-> TRUE, v |-> JsonArray(<<>>), next |-> j + 1]
         ELSE LET el == json_value(s, j) IN
              IF ~el.ok THEN JsonFail
              ELSE LET k == skip_ws(s, el.next) IN
                   IF k <= Len(s) /\ s[k] = 93
                   THEN [ok |-> TRUE, v |-> JsonArray(<<el.v>>),
                         next |-> k + 1]
                   ELSE JsonFail
    ELSE IF s[i] = 48
    THEN [ok |-> TRUE, v |-> JsonNumber(0), next |-> i + 1]
    ELSE IF s[i] \in 49..57 THEN scan_digits(s, i, 0)
    ELSE JsonFail

(* json::parse: one value, then nothing but white space; else it throws *)
json_parse_text(s) ==
    LET r == json_value(s, 1) IN
    IF r.ok /\ skip_ws(s, r.next) > Len(s)
    THEN [ok |-> TRUE, v |-> r.v]
    ELSE [ok |-> FALSE, v |-> JsonNull]

RECURSIVE Digits(_)
Digits(x) ==
    IF x < 10 THEN <<48 + x>> ELSE Digits(x \div 10) \o <<48 + (x % 10)>>

RECURSIVE json_dump(_)
(* json::dump(): the compact text of a value *)
json_dump(v) ==
    CASE v.t = "obj" -> <<123, 125>>
      [] v.t = "num" -> Digits(v.n)
      [] v.t = "arr" -> <<91>> \o (IF v.e = <<>> THEN <<>>
                                   ELSE json_dump(v.e[1])) \o <<93>>
      [] OTHER -> <<110, 117, 108, 108>>

(* A uint32_t is held as its two 16-bit halves, hi * 65536 + lo, since    *)
(* the integers of the model checker end below 2^32.                      *)
U32(hi, lo) == [hi |-> hi, lo |-> lo]

(* the four bytes of a uint32_t in little-endian order *)
LE32(x) ==
    <<x % 256, (x \div 256) % 256, (x \div 65536) % 256,
      (x \div 16777216) % 256>>

(* memcpy of four bytes into a uint32_t, then little_to_native_inplace *)
little_to_native(b) == U32(b[3] + 256 * b[4], b[1] + 256 * b[2])

(* the same four bytes read most significant byte first *)
big_to_native(b) == U32(b[2] + 256 * b[1], b[4] + 256 * b[3])

(* size < n for a size_t below 65536 and a uint32_t n *)
SizeBelow(size, n) == n.hi > 0 \/ size < n.lo

CombinedThrow(read) ==
    [ok |-> FALSE, ciphertext |-> <<>>, json |-> JsonNull, read |-> read]

(* parse_combined_payload reading its length prefix as big-endian *)
parse_combined_payload_bytes_bigendian(payload) ==
    IF Len(payload) < 4 THEN CombinedThrow(0)
    ELSE
        LET n == big_to_native(SubSeq(payload, 1, 4))
            rest == SubSeq(payload, 5, Len(payload))
        IN
        IF SizeBelow(Len(rest), n) THEN CombinedThrow(4)
        ELSE
            LET ciphertext == SubSeq(rest, 1, n.lo)
                js == json_parse_text(SubSeq(rest, n.lo + 1, Len(rest)))
            IN
            IF js.ok
            THEN [ok |-> TRUE, ciphertext |-> ciphertext, json |-> js.v,
                  read |-> Len(payload)]
            ELSE CombinedThrow(Len(payload))

(* read is the highest position of the payload the function has read *)
parse_combined_payload_bytes(payload) ==
    IF Len(payload) < 4 THEN CombinedThrow(0)
    ELSE
        LET n == little_to_native(SubSeq(payload, 1, 4))
            rest == SubSeq(payload, 5, Len(payload))
        IN
        IF SizeBelow(Len(rest), n) THEN CombinedThrow(4)
        ELSE
            LET ciphertext == SubSeq(rest, 1, n.lo)
                js == json_parse_text(SubSeq(rest, n.lo + 1, Len(rest)))
            IN
            IF js.ok
            THEN [ok |-> TRUE, ciphertext |-> ciphertext, json |-> js.v,
                  read |-> Len(payload)]
            ELSE CombinedThrow(Len(payload))

(* | N | ciphertext | json |, as the sender of an onion layer writes it *)
emit_combined_payload(c, json) ==
    LE32(Len(c)) \o c \o json_dump(json)

(* Inputs *)
PayloadBytes == {0, 1, 32, 123, 125}

CipherBytes == {0, 1, 123}

SeqsUpTo(S, len) == UNION { [1..l -> S] : l \in 0..len }

RECURSIVE JsonValues(_)
JsonValues(depth) ==
    IF depth = 0
    THEN {JsonObject, JsonArray(<<>>)} \cup
         { JsonNumber(x) : x \in 0..MaxNum }
    ELSE JsonValues(depth - 1) \cup
         { JsonArray(<<v>>) : v \in JsonValues(depth - 1) }

CombinedInit ==
    /\ CoreIdle
    /\ LaterIdle
    /\ AppliedIdle
    /\ OxendIdle
    /\ SessionIdle
    /\ ServerIdle
    /\ RequestIdle
    /\ LimiterIdle
    /\ OwnIdle
    /\ LifeIdle
    /\ \/ \E p \in SeqsUpTo(PayloadBytes, MaxPayload) :
            combined = [CombinedOff EXCEPT !.pc = "call", !.payload = p]
       \/ \E c \in SeqsUpTo(CipherBytes, MaxCipher),
             j \in JsonValues(MaxDepth) :
            combined = [CombinedOff EXCEPT
                          !.pc = "call", !.emitted = TRUE, !.c = c,
                          !.json = j,
                          !.payload = emit_combined_payload(c, j)]

CallParseCombinedPayload ==
    /\ combined.pc = "call"
    /\ combined' = [combined EXCEPT
                      !.pc = "done",
                      !.out = parse_combined_payload_bytes(combined.payload)]
    /\ UNCHANGED <<coreVars, laterVars, applied, oxend, session, server,
                 request,
                 limiter,
                 own,
                 life>>

CombinedNext == CallParseCombinedPayload

SpecCombined == CombinedInit /\ [][CombinedNext]_vars

(* The length N the first four bytes of p spell, least significant first, *)
(* is more than the bytes after them                                      *)
PrefixExceeds(p) ==
    \/ p[4] > 0
    \/ p[3] > 0
    \/ p[2] * 256 + p[1] > Len(p) - 4

(* N, when it is not more than the bytes after the prefix *)
PrefixN(p) == p[2] * 256 + p[1]

(* The bytes of p after its length prefix and after n bytes more *)
Remainder(p, n) == SubSeq(p, 5 + n, Len(p))

\* C30: parse_combined_payload(p) fails, reading nothing outside p, when p
\* has fewer than 4 bytes, when the little-endian length N of its first 4
\* bytes exceeds the number of bytes after them, or when what follows the
\* N bytes of ciphertext is not valid JSON; otherwise it returns exactly the
\* N bytes after the prefix and the parsed remainder, so that parsing
\* LE32(len(c)) || c || json returns (c, json).
C30_ParseCombinedPayload ==
    combined.pc = "done" =>
        LET p == combined.payload
            out == combined.out
        IN
        /\ out.read <= Len(p)
        /\ IF Len(p) < 4 THEN ~out.ok
           ELSE IF PrefixExceeds(p) THEN ~out.ok
           ELSE IF ~json_parse_text(Remainder(p, PrefixN(p))).ok THEN ~out.ok
           ELSE /\ out.ok
                /\ out.ciphertext = SubSeq(p, 5, 4 + PrefixN(p))
                /\ out.json = json_parse_text(Remainder(p, PrefixN(p))).v
        /\ combined.emitted =>
              /\ out.ok
              /\ out.ciphertext = combined.c
              /\ out.json = combined.json

C30_Witness ==
    /\ combined.pc = "done"
    /\ combined.emitted
    /\ Len(combined.c) = MaxCipher
    /\ combined.json.t = "arr"
    /\ combined.json.e # <<>>
    /\ combined.out.ok
    /\ combined.out.ciphertext = combined.c


-----------------------------------------------------------------------------
(* The optional routing fields of the inner JSON *)

\* C31: optional routing fields take their defaults exactly when absent: a
\* RelayToServer result has port 443 and protocol https when the inner JSON
\* has no port / protocol and the given values when present; a RelayToNode
\* result has enc_type aes_gcm when the inner JSON has no enc_type.
C31_OptionalDefaults ==
    inner.pc = "done" =>
        /\ inner.info.kind = "RelayToServer" =>
              /\ inner.info.port =
                    (IF InnerHas("port") THEN InnerDoc["port"].n ELSE 443)
              /\ inner.info.protocol =
                    (IF InnerHas("protocol") THEN InnerDoc["protocol"].s
                     ELSE "https")
        /\ (inner.info.kind = "RelayToNode" /\ ~InnerHas("enc_type")) =>
              inner.info.enc_type = "aes_gcm"

(* The same with a present port taken modulo 2^16 *)
C31_DefaultsAndTruncatedPort ==
    inner.pc = "done" =>
        /\ inner.info.kind = "RelayToServer" =>
              /\ inner.info.port =
                    (IF InnerHas("port") THEN InnerDoc["port"].n % U16Mod
                     ELSE 443)
              /\ inner.info.protocol =
                    (IF InnerHas("protocol") THEN InnerDoc["protocol"].s
                     ELSE "https")
        /\ (inner.info.kind = "RelayToNode" /\ ~InnerHas("enc_type")) =>
              inner.info.enc_type = "aes_gcm"


-----------------------------------------------------------------------------
(* The bytes each kind of inner request carries onward *)

(* The N chunks after the length prefix of the plaintext *)
InnerCiphertext ==
    SubSeq(inner.plaintext, 2, 1 + inner.plaintext[1].n)

\* C32: for FinalDestination the body, and for RelayToNode the ciphertext,
\* are exactly the inner ciphertext (the N bytes after the length prefix of
\* the decrypted plaintext), whereas for RelayToServer the payload is the
\* entire decrypted plaintext.
C32_CarriedBytes ==
    inner.pc = "done" =>
        /\ inner.info.kind \in {"FinalDestination", "RelayToNode"} =>
              inner.info.body = InnerCiphertext
        /\ inner.info.kind = "RelayToServer" =>
              inner.info.payload = inner.plaintext

C32_Witness ==
    /\ inner.pc = "done"
    /\ inner.info.kind = "RelayToServer"
    /\ inner.info.payload = inner.plaintext
    /\ inner.info.payload # InnerCiphertext
    /\ InnerCiphertext # <<>>


-----------------------------------------------------------------------------
(* What a ciphertext that does not decrypt is answered with *)

(* The layer at the onion entry point did not decrypt *)
EntryDecryptFailed ==
    /\ LastDecoded
    /\ onion.last.hop = 1
    /\ ~LastDecrypt.ok

ProxyDecrypt ==
    decrypt_cbc(NodeKey(1), onion.ciphertext, onion.data.ephem_key,
                onion.last.pad_ok)

(* The payload at the proxy exit did not decrypt *)
ProxyDecryptFailed ==
    /\ onion.channel = "proxy"
    /\ onion.pc = "done"
    /\ onion.last.env_ready
    /\ ~ProxyDecrypt.ok

\* C33: every decryption failure is reported as one outcome: the onion entry
\* point answers every ciphertext that does not decrypt with the same status
\* and body, and so does the proxy exit, whatever the internal reason of the
\* failure (short input, bad tag, bad padding, failed key derivation).
C33_OneFailureOutcome ==
    /\ EntryDecryptFailed =>
          onion.last.cbs = <<TextResponse(400, "Invalid ciphertext")>>
    /\ ProxyDecryptFailed =>
          onion.last.cbs = <<BytesResponse(200, to_base64(<<>>))>>


-----------------------------------------------------------------------------
(* HTTPSServer: start, shutdown and the server thread                      *)

MaxBind == 2
MaxServerCalls == 3
MaxConns == 1

(* HTTPSServer::start without its guard against a second call *)
HTTPSServer_start_again(s) ==
    [s EXCEPT !.startup_promise_ = "true", !.sets = @ + 1,
              !.sent_startup_ = TRUE, !.pc = "start_get"]

(* HTTPSServer::start up to startup_success_.get(), where it blocks *)
HTTPSServer_start(s) ==
    IF s.sent_startup_
    THEN [s EXCEPT !.start_threw = @ + 1]
    ELSE [s EXCEPT !.startup_promise_ = "true", !.sets = @ + 1,
                   !.sent_startup_ = TRUE, !.pc = "start_get"]

(* HTTPSServer::shutdown up to server_thread_.join(), where it blocks *)
HTTPSServer_shutdown(s, join) ==
    IF ~s.joinable THEN s
    ELSE
        LET signalled ==
                IF s.sent_shutdown_ THEN s
                ELSE IF ~s.sent_startup_
                THEN [s EXCEPT !.startup_promise_ = "false", !.sets = @ + 1,
                               !.sent_startup_ = TRUE,
                               !.sent_shutdown_ = TRUE]
                ELSE IF s.listen_socks_ # {}
                THEN [s EXCEPT !.deferred = @ + 1, !.defers = @ + 1,
                               !.sent_shutdown_ = TRUE]
                ELSE [s EXCEPT !.sent_shutdown_ = TRUE]
        IN
        IF join THEN [signalled EXCEPT !.pc = "join"] ELSE signalled

(* The server thread once startup_future.get() returns *)
server_thread(s) ==
    IF s.startup_promise_ = "false" THEN [s EXCEPT !.thread = "exited"]
    ELSE
        LET listening == { i \in 1..Len(s.bind) : s.bind[i].ok }
            required_bind_failed ==
                \E i \in 1..Len(s.bind) : ~s.bind[i].ok /\ s.bind[i].required
        IN
        IF listening = {} \/ required_bind_failed
        THEN [s EXCEPT !.startup_success_ = "exception",
                       !.listened = listening # {},
                       !.thread = "exited"]
        ELSE [s EXCEPT !.startup_success_ = "value",
                       !.listening = listening,
                       !.listened = TRUE,
                       !.thread = "running"]

(* The closure shutdown defers to the loop *)
shutdown_deferred(s) ==
    [s EXCEPT !.listening = @ \ s.listen_socks_,
              !.listen_socks_ = {},
              !.closing_ = TRUE,
              !.closed_by = "loop",
              !.deferred = @ - 1]

Binds ==
    UNION { [1..n -> [ok : BOOLEAN, required : BOOLEAN]] : n \in 1..MaxBind }

ServerInit ==
    /\ CoreIdle
    /\ LaterIdle
    /\ AppliedIdle
    /\ OxendIdle
    /\ SessionIdle
    /\ CombinedIdle
    /\ RequestIdle
    /\ LimiterIdle
    /\ OwnIdle
    /\ LifeIdle
    /\ \E b \in Binds : server = [ServerOff EXCEPT !.pc = "idle", !.bind = b]

ServerUnchanged ==
    UNCHANGED <<coreVars, laterVars, applied, oxend, session, combined,
                 request,
                 limiter,
                 own,
                 life>>

CallStart ==
    /\ server.pc = "idle"
    /\ server.calls < MaxServerCalls
    /\ server' = [HTTPSServer_start(server) EXCEPT !.calls = @ + 1]
    /\ ServerUnchanged

(* startup_success_.get() returns the listening sockets, or throws *)
StartGet ==
    /\ server.pc = "start_get"
    /\ server.startup_success_ # "unset"
    /\ server' =
         IF server.startup_success_ = "value"
         THEN [server EXCEPT !.listen_socks_ = server.listening,
                             !.started = @ + 1, !.pc = "idle"]
         ELSE [server EXCEPT !.start_threw = @ + 1, !.pc = "idle"]
    /\ ServerUnchanged

CallShutdown ==
    /\ server.pc = "idle"
    /\ server.calls < MaxServerCalls
    /\ \E join \in BOOLEAN :
          server' = [HTTPSServer_shutdown(server, join) EXCEPT
                       !.calls = @ + 1]
    /\ ServerUnchanged

(* server_thread_.join() returns *)
JoinReturns ==
    /\ server.pc = "join"
    /\ server.thread = "exited"
    /\ server' = [server EXCEPT !.joinable = FALSE, !.joined = TRUE,
                                !.pc = "idle"]
    /\ ServerUnchanged

ServerThreadStarts ==
    /\ server.thread = "waiting"
    /\ server.startup_promise_ # "unset"
    /\ server' = server_thread(server)
    /\ ServerUnchanged

LoopRunsDeferred ==
    /\ server.thread = "running"
    /\ server.deferred > 0
    /\ server' = shutdown_deferred(server)
    /\ ServerUnchanged

LoopAccepts ==
    /\ server.thread = "running"
    /\ server.listening # {}
    /\ server.conns < MaxConns
    /\ server' = [server EXCEPT !.conns = @ + 1]
    /\ ServerUnchanged

(* A connection ends: the peer closes it, or a response written while     *)
(* closing_ is set closes it.                                             *)
LoopConnectionEnds ==
    /\ server.thread = "running"
    /\ server.conns > 0
    /\ server' = [server EXCEPT !.conns = @ - 1]
    /\ ServerUnchanged

(* https.run() returns once the loop has nothing left to wait for *)
LoopRunReturns ==
    /\ server.thread = "running"
    /\ server.listening = {}
    /\ server.conns = 0
    /\ server.deferred = 0
    /\ server' = [server EXCEPT !.thread = "exited"]
    /\ ServerUnchanged

ServerNext ==
    \/ CallStart
    \/ StartGet
    \/ CallShutdown
    \/ JoinReturns
    \/ ServerThreadStarts
    \/ LoopRunsDeferred
    \/ LoopAccepts
    \/ LoopConnectionEnds
    \/ LoopRunReturns

SpecServer == ServerInit /\ [][ServerNext]_vars

\* C34: start() succeeds at most once; shutdown() is idempotent (the
\* startup promise is set once, the close of the listening sockets is
\* deferred once); after start() and shutdown(join=true) the listening
\* sockets have been closed on the loop thread, closing_ is set and the
\* server thread has terminated; shutdown() without a prior start() makes
\* the server thread exit without ever listening, and no later start()
\* succeeds.
C34_Lifecycle ==
    /\ server.started <= 1
    /\ server.sets <= 1
    /\ server.defers <= 1
    /\ server.joined => server.thread = "exited"
    /\ (server.joined /\ server.started = 1) =>
          /\ server.listening = {}
          /\ server.closing_
          /\ server.closed_by = "loop"
    /\ server.startup_promise_ = "false" =>
          /\ ~server.listened
          /\ server.listening = {}
          /\ server.started = 0
          /\ server.thread \in {"waiting", "exited"}

C34_Witness ==
    /\ server.joined
    /\ server.started = 1
    /\ server.closing_
    /\ server.listening = {}
    /\ server.calls = MaxServerCalls

(* shutdown() came first, a later start() threw *)
C34_WitnessNoStart ==
    /\ server.startup_promise_ = "false"
    /\ server.thread = "exited"
    /\ server.start_threw = 1


-----------------------------------------------------------------------------
(* The node index after update_state has returned *)

\* C35: after every call of update_state, for any arguments, the node index
\* reflects exactly the given roster: every snode of swarms and of
\* decommissioned is found by find_node under its legacy, ed25519 and x25519
\* key, and no snode absent from both is found.
C35_IndexReflectsRoster ==
    roster.pc = "done" =>
        \A kind \in {"legacy", "ed25519", "x25519"}, n \in Members :
            find_node(roster, kind, n) = (n \in After)

(* The same for the calls that do not take the early return *)
C35_IndexReflectsRosterUnlessEarlyReturn ==
    (roster.pc = "done" /\ ~(roster.active /\ roster.members = <<>>)) =>
        \A kind \in {"legacy", "ed25519", "x25519"}, n \in Members :
            find_node(roster, kind, n) = (n \in After)


-----------------------------------------------------------------------------
(* process_client_req applied to a request string *)

RequestStrings ==
    RpcBodies
    \cup
    { <<RpcChunk(TRUE, FALSE, JAbsent, "absent", NoParams)>>,
      <<RpcChunk(TRUE, TRUE, JNum(1), "obj", NoParams)>>,
      <<RpcChunk(TRUE, TRUE, JStr("store"), "str", NoParams)>>,
      <<RpcChunk(TRUE, TRUE, JStr("retrieve"), "absent", NoParams)>>,
      <<RpcChunk(TRUE, TRUE, JStr("no_such_method"), "obj", NoParams)>>,
      <<RpcChunk(TRUE, TRUE, JStr("no_such_method"), "absent", NoParams)>>,
      <<StoreRequest(MAX_ID)>>,
      <<RetrieveRequest(0)>> }

RequestInit ==
    /\ SwarmIdle
    /\ CipherIdle
    /\ InnerIdle
    /\ RpcIdle
    /\ OnionIdle
    /\ LaterIdle
    /\ AppliedIdle
    /\ OxendIdle
    /\ SessionIdle
    /\ CombinedIdle
    /\ ServerIdle
    /\ LimiterIdle
    /\ OwnIdle
    /\ LifeIdle
    /\ sn \in Nodes
    /\ \E r \in RequestStrings :
          request = [RequestOff EXCEPT !.pc = "start", !.req_json = r]

CallProcessClientReq ==
    /\ request.pc = "start"
    /\ \E outcome \in StoreOutcomes, ub \in UBs :
          \E c \in {process_client_req(request.req_json, sn, outcome, ub)} :
              /\ request' = [request EXCEPT !.pc = "done", !.out = c]
              /\ sn' = [sn EXCEPT
                          !.stored = @ + (IF c.stored THEN 1 ELSE 0),
                          !.retrieved = @ + (IF c.retrieved THEN 1 ELSE 0)]
    /\ UNCHANGED <<swarmVars, cipher, inner, rpc, onion, laterVars, applied,
                   oxend, session, combined, server, limiter,
                   own,
                   life>>

RequestNext == CallProcessClientReq

SpecRequest == RequestInit /\ [][RequestNext]_vars

(* The envelope of the request: valid JSON, `method` a string, `params`   *)
(* an object                                                              *)
EnvelopeOk ==
    LET body == json_parse(request.req_json) IN
    /\ body.parses
    /\ body.obj
    /\ body.method.t = "str"
    /\ body.pkind = "obj"

\* C36: for every request string process_client_req invokes the reply
\* callback exactly once, and when it replies 400 for a malformed envelope
\* (invalid JSON, missing or non-string method, missing or non-object
\* params) that 400 is the only reply and no method handler runs
\* afterwards.
C36_OneReplyNoHandlerAfter400 ==
    request.pc = "done" =>
        /\ Len(request.out.cbs) = 1
        /\ ~request.out.exc
        /\ ~request.out.crashed
        /\ ~EnvelopeOk =>
              /\ request.out.cbs[1].status = 400
              /\ ~request.out.stored
              /\ ~request.out.retrieved

-----------------------------------------------------------------------------
(* The rate limiter in front of the storage tests                          *)

(* Tokens a snode bucket holds when full, requests and refills of a run *)
MaxBurst == 2
MaxRequests == 3
MaxRefills == 1

(* RateLimiter::should_rate_limit on a bucket of the given fill: a token  *)
(* is taken when there is one, the request is limited when there is none  *)
should_rate_limit(tokens) ==
    IF tokens = 0
    THEN [limited |-> TRUE, tokens |-> 0]
    ELSE [limited |-> FALSE, tokens |-> tokens - 1]

(* RequestHandler::validate_snode_signature: the sender's pubkey, or the  *)
(* response of the failed check; headers_only leaves the signature alone  *)
validate_snode_signature(req, headers_only) ==
    IF ~req.headers THEN "missing_headers"
    ELSE IF ~req.known THEN "unknown_snode"
    ELSE IF ~headers_only /\ ~req.signed THEN "bad_signature"
    ELSE "pubkey"

(* HTTPSServer::process_storage_test_req: check_snode_headers before the  *)
(* body is read, the full validation once it has arrived                  *)
process_storage_test_req_bucket(l, req) ==
    LET prevalidate == validate_snode_signature(req, TRUE)
        limit == should_rate_limit(l.tokens)
        validate == validate_snode_signature(req, FALSE)
    IN IF prevalidate # "pubkey"
       THEN [tokens |-> l.tokens, status |-> prevalidate, charged |-> FALSE]
       ELSE IF limit.limited
       THEN [tokens |-> l.tokens, status |-> "too_many_requests",
             charged |-> FALSE]
       ELSE IF validate # "pubkey"
       THEN [tokens |-> limit.tokens, status |-> validate, charged |-> TRUE]
       ELSE [tokens |-> limit.tokens, status |-> "ok", charged |-> TRUE]

(* connection_t::validate_snode_request *)
validate_snode_request_bucket(l, req) ==
    LET limit == should_rate_limit(l.tokens) IN
    IF ~req.headers
    THEN [tokens |-> l.tokens, status |-> "missing_headers",
          charged |-> FALSE]
    ELSE IF ~req.known
    THEN [tokens |-> l.tokens, status |-> "unknown_snode", charged |-> FALSE]
    ELSE IF ~req.signed
    THEN [tokens |-> l.tokens, status |-> "bad_signature", charged |-> FALSE]
    ELSE IF limit.limited
    THEN [tokens |-> l.tokens, status |-> "too_many_requests",
          charged |-> FALSE]
    ELSE [tokens |-> limit.tokens, status |-> "ok", charged |-> TRUE]

(* A request carries P's signature over its body *)
Genuine(req) == req.headers /\ req.known /\ req.signed

(* The storage tests that name P as their sender *)
TestRequests == [headers : BOOLEAN, known : BOOLEAN, signed : BOOLEAN]

Fronts == {"https", "connection"}

LimiterInit ==
    /\ CoreIdle
    /\ LaterIdle
    /\ AppliedIdle
    /\ OxendIdle
    /\ SessionIdle
    /\ CombinedIdle
    /\ ServerIdle
    /\ RequestIdle
    /\ OwnIdle
    /\ LifeIdle
    /\ \E f \in Fronts :
          limiter = [LimiterOff EXCEPT !.pc = "serving", !.front = f,
                                       !.tokens = MaxBurst,
                                       !.shadow = MaxBurst]

(* A storage test naming P arrives and is answered *)
StorageTestArrives ==
    /\ limiter.pc = "serving"
    /\ limiter.handled < MaxRequests
    /\ \E req \in TestRequests :
          \E o \in {IF limiter.front = "https"
                    THEN process_storage_test_req_bucket(limiter, req)
                    ELSE validate_snode_request_bucket(limiter, req)} :
             limiter' =
                 [limiter EXCEPT
                    !.tokens = o.tokens,
                    !.shadow = IF Genuine(req)
                               THEN should_rate_limit(@).tokens ELSE @,
                    !.handled = @ + 1,
                    !.last = [req |-> req, status |-> o.status,
                              charged |-> o.charged,
                              shadow |-> limiter.shadow]]
    /\ UNCHANGED <<coreVars, laterVars, applied, oxend, session, combined,
                   server, request,
                 own,
                 life>>

(* Time passes: the bucket regains a token, up to its burst *)
BucketRefills ==
    /\ limiter.pc = "serving"
    /\ limiter.refills < MaxRefills
    /\ limiter' = [limiter EXCEPT
                     !.tokens = IF @ < MaxBurst THEN @ + 1 ELSE @,
                     !.shadow = IF @ < MaxBurst THEN @ + 1 ELSE @,
                     !.refills = @ + 1]
    /\ UNCHANGED <<coreVars, laterVars, applied, oxend, session, combined,
                   server, request,
                 own,
                 life>>

LimiterNext == StorageTestArrives \/ BucketRefills

SpecLimiter == LimiterInit /\ [][LimiterNext]_vars

\* C37: a storage test whose signature does not verify never takes a token
\* from the bucket of the snode it names as sender, and a genuine request of
\* that snode is answered 429 only when its own verified requests have
\* emptied the bucket.
C37_ForgedNeverCharges ==
    limiter.handled > 0 =>
        /\ limiter.last.charged => limiter.last.req.signed
        /\ (Genuine(limiter.last.req)
              /\ limiter.last.status = "too_many_requests")
             => limiter.last.shadow = 0

(* The same, of the connection_t front-end alone *)
C37_ConnectionFrontEnd ==
    limiter.front = "connection" => C37_ForgedNeverCharges

-----------------------------------------------------------------------------
(* A Swarm under set_swarm_id, update_state and is_pubkey_for_us *)

(* Swarm::set_swarm_id *)
Swarm_set_swarm_id(self, sid) == [self EXCEPT !.cur_swarm_id_ = sid]

(* Swarm::update_state, the roster it leaves *)
Swarm_update_state(self, swarms, active) ==
    IF active
    THEN [self EXCEPT !.all_valid_swarms_ =
                          Swarm_apply_swarm_changes(@, swarms)]
    ELSE self

(* A node that has not been told its swarm and knows no roster *)
OwnInit ==
    /\ CoreIdle
    /\ LaterIdle
    /\ AppliedIdle
    /\ OxendIdle
    /\ SessionIdle
    /\ CombinedIdle
    /\ ServerIdle
    /\ RequestIdle
    /\ LimiterIdle
    /\ LifeIdle
    /\ own = [OwnOff EXCEPT !.pc = "live",
                            !.cur_swarm_id_ = INVALID_SWARM_ID]

CallSetSwarmId ==
    /\ own.pc = "live"
    /\ \E sid \in U64 :
          own' = [Swarm_set_swarm_id(own, sid) EXCEPT !.asked = <<>>,
                                                      !.answer = "none"]
    /\ UNCHANGED <<coreVars, laterVars, applied, oxend, session, combined,
                   server, request, limiter,
                 life>>

CallUpdateState ==
    /\ own.pc = "live"
    /\ \E swarms \in Rosters, active \in BOOLEAN :
          own' = [Swarm_update_state(own, swarms, active)
                    EXCEPT !.asked = <<>>, !.answer = "none"]
    /\ UNCHANGED <<coreVars, laterVars, applied, oxend, session, combined,
                   server, request, limiter,
                 life>>

CallIsPubkeyForUs ==
    /\ own.pc = "live"
    /\ \E upk \in UserPubkeys :
          own' = [own EXCEPT
                    !.asked = upk,
                    !.answer = IF Swarm_is_pubkey_for_us(own, upk)
                               THEN "ours" ELSE "not_ours"]
    /\ UNCHANGED <<coreVars, laterVars, applied, oxend, session, combined,
                   server, request, limiter,
                 life>>

OwnNext == CallSetSwarmId \/ CallUpdateState \/ CallIsPubkeyForUs

SpecOwn == OwnInit /\ [][OwnNext]_vars

\* C38: a node whose cur_swarm_id_ is INVALID_SWARM_ID is told by
\* is_pubkey_for_us that no pubkey is its own, whatever set_swarm_id and
\* update_state calls came before and whatever roster it knows.
C38_UnassignedOwnsNothing ==
    (own.cur_swarm_id_ = INVALID_SWARM_ID /\ own.answer # "none")
        => own.answer = "not_ours"

(* An unassigned node claims a pubkey although its roster has a valid swarm *)
C38_OwnsWithRoster ==
    /\ own.cur_swarm_id_ = INVALID_SWARM_ID
    /\ own.answer = "ours"
    /\ ValidIds(own.all_valid_swarms_) # {}

-----------------------------------------------------------------------------
(* The special case of get_swarm_by_pk in exact arithmetic *)

(* a - b and a + b leave the range of uint64_t *)
SubUnderflows(a, b) == a - b < 0

AddOverflows(a, b) == a + b >= U64Mod

(* The state of the loop of get_swarm_by_pk when it ends *)
LoopEnd(swarms, res) ==
    SwarmLoop(swarms, res, 1,
              [cur_best     |-> INVALID_SWARM_ID,
               cur_min      |-> INVALID_SWARM_ID,
               leftmost_id  |-> INVALID_SWARM_ID,
               rightmost_id |-> 0])

(* swarm.cpp 339-353: the distance that is computed wraps around *)
SpecialCaseWraps(res, st) ==
    IF res > st.rightmost_id
    THEN \/ SubUnderflows(MAX_ID, res)
         \/ AddOverflows(USub(MAX_ID, res), st.leftmost_id)
    ELSE IF res < st.leftmost_id
    THEN \/ SubUnderflows(MAX_ID, st.rightmost_id)
         \/ AddOverflows(res, USub(MAX_ID, st.rightmost_id))
    ELSE FALSE

\* C39: the distances (MAX_ID - h) + leftmost_id and h + (MAX_ID -
\* rightmost_id) that get_swarm_by_pk computes for the wrap-around never
\* leave the range of 64-bit unsigned arithmetic, for every fold h of a
\* pubkey and every roster.
C39_WrapDistanceInRange ==
    ret # NoId =>
        ~SpecialCaseWraps(hex_to_u64(pk), LoopEnd(all_swarms, hex_to_u64(pk)))

(* The same for a fold below 2^64 - 1 and a roster with a valid swarm *)
C39_InRangeWithValidSwarm ==
    (/\ ret # NoId
     /\ hex_to_u64(pk) # INVALID_SWARM_ID
     /\ ValidIds(all_swarms) # {})
        => ~SpecialCaseWraps(hex_to_u64(pk),
                             LoopEnd(all_swarms, hex_to_u64(pk)))

(* The subtraction underflows although the roster has a valid swarm *)
C39_UnderflowWithValidSwarm ==
    /\ ret # NoId
    /\ ValidIds(all_swarms) # {}
    /\ SubUnderflows(MAX_ID, hex_to_u64(pk))
    /\ hex_to_u64(pk) > LoopEnd(all_swarms, hex_to_u64(pk)).rightmost_id

(* The addition overflows: no valid swarm, leftmost_id is the sentinel *)
C39_OverflowWithoutSwarm ==
    /\ ret # NoId
    /\ ValidIds(all_swarms) = {}
    /\ hex_to_u64(pk) \in 1..(MAX_ID - 1)
    /\ AddOverflows(USub(MAX_ID, hex_to_u64(pk)),
                    LoopEnd(all_swarms, hex_to_u64(pk)).leftmost_id)

-----------------------------------------------------------------------------
(* http_connection.cpp: the life of a connection_t *)

(* The requests whose reply is written by a continuation, and one that is *)
(* answered in on_data                                                    *)
DelayedKinds ==
    {"onion", "proxy", "file_proxy", "blockchain_test", "long_poll"}

LifeKinds == DelayedKinds \cup {"plain"}

(* The last shared_ptr is gone: ~connection_t, with its safety net *)
Destroyed(l) ==
    IF l.holders = {} /\ l.shutdowns = 0 /\ ~l.destroyed
    THEN [l EXCEPT !.destroyed = TRUE,
                   !.stream = "closed",
                   !.closes = IF l.stream = "open" THEN @ + 1 ELSE @]
    ELSE l

(* connection_t::do_close: async_shutdown bound to shared_from_this *)
do_close(l) == [l EXCEPT !.shutdowns = @ + 1]

(* connection_t::clean_up *)
clean_up(l) == do_close(l)

(* deadline_.cancel(): a wait that has not expired completes with *)
(* operation_aborted, one that has expired is not affected        *)
deadline_cancel(l) ==
    IF l.deadline = "armed" THEN [l EXCEPT !.deadline = "aborted"] ELSE l

(* connection_t::write_response: async_write on stream_, its handler *)
(* holds shared_from_this                                            *)
write_response(l) ==
    [l EXCEPT !.writes = @ + 1,
              !.late_writes = IF l.stream = "open" /\ l.shutdowns = 0
                              THEN @ ELSE @ + 1,
              !.holders = @ \cup {"write"}]

(* The handler of async_write *)
write_handler(l) ==
    [deadline_cancel(clean_up(l)) EXCEPT !.holders = @ \ {"write"}]

(* The handler that register_deadline gave to deadline_ *)
deadline_handler(l) ==
    IF l.deadline = "aborted"
    THEN [l EXCEPT !.deadline = "done", !.holders = @ \ {"deadline"}]
    ELSE [clean_up(l) EXCEPT !.deadline = "done",
                             !.holders = @ \ {"deadline"}]

(* connection_t::on_shutdown *)
on_shutdown(l) ==
    [l EXCEPT !.shutdowns = @ - 1, !.stream = "closed", !.closes = @ + 1]

(* The on_data of read_request.  The read fails when the stream has been *)
(* shut down.  For a request that was read, the process_* of a delayed   *)
(* kind sets delay_response_ and hands a continuation that captured this *)
(* to the request handler or to a timer; an onion request whose outer    *)
(* JSON does not parse hands out nothing                                 *)
on_data(l) ==
    IF l.stream # "open" \/ l.shutdowns > 0
    THEN [deadline_cancel(clean_up(l)) EXCEPT !.holders = @ \ {"on_data"}]
    ELSE
    LET processed ==
            IF l.kind \in DelayedKinds
            THEN [l EXCEPT !.delay_response_ = TRUE,
                           !.pending = (l.kind # "onion" \/ l.parse_ok)]
            ELSE l
        answered ==
            IF ~processed.delay_response_ THEN write_response(processed)
            ELSE processed
    IN [answered EXCEPT !.holders = @ \ {"on_data"}]

(* The continuation runs on the object that this pointed to *)
continuation(l, ub) ==
    IF l.destroyed
    THEN [l EXCEPT !.pending = FALSE, !.uaf = TRUE,
                   !.pc = IF ub = "crash" THEN "crashed" ELSE @]
    ELSE [write_response(l) EXCEPT !.pending = FALSE]

(* What a use of the destroyed object may do *)
LifeUBs == {"crash", "unnoticed"}

(* accept_connection made the connection, start() armed the deadline, *)
(* the handshake succeeded and read_request waits for the request     *)
LifeInit ==
    /\ CoreIdle
    /\ LaterIdle
    /\ AppliedIdle
    /\ OxendIdle
    /\ SessionIdle
    /\ CombinedIdle
    /\ ServerIdle
    /\ RequestIdle
    /\ LimiterIdle
    /\ OwnIdle
    /\ \E k \in LifeKinds, ok \in BOOLEAN :
          life = [LifeOff EXCEPT !.pc = "live", !.kind = k,
                                 !.parse_ok = ok,
                                 !.holders = {"deadline", "on_data"},
                                 !.deadline = "armed", !.stream = "open"]

LifeUnchanged ==
    UNCHANGED <<coreVars, laterVars, applied, oxend, session, combined,
                server, request, limiter, own>>

LifeOnData ==
    /\ life.pc = "live"
    /\ "on_data" \in life.holders
    /\ life' = Destroyed(on_data(life))
    /\ LifeUnchanged

(* SESSION_TIME_LIMIT has passed *)
LifeDeadlineExpires ==
    /\ life.pc = "live"
    /\ life.deadline = "armed"
    /\ life' = [life EXCEPT !.deadline = "expired"]
    /\ LifeUnchanged

LifeDeadlineHandler ==
    /\ life.pc = "live"
    /\ life.deadline \in {"expired", "aborted"}
    /\ life' = Destroyed(deadline_handler(life))
    /\ LifeUnchanged

LifeWriteHandler ==
    /\ life.pc = "live"
    /\ "write" \in life.holders
    /\ life' = Destroyed(write_handler(life))
    /\ LifeUnchanged

LifeOnShutdown ==
    /\ life.pc = "live"
    /\ life.shutdowns > 0
    /\ life' = Destroyed(on_shutdown(life))
    /\ LifeUnchanged

(* The reply of the next hop, of the target, of oxend, or the delay timer *)
LifeContinuation ==
    /\ life.pc = "live"
    /\ life.pending
    /\ \E ub \in LifeUBs : life' = Destroyed(continuation(life, ub))
    /\ LifeUnchanged

LifeNext ==
    \/ LifeOnData
    \/ LifeDeadlineExpires
    \/ LifeDeadlineHandler
    \/ LifeWriteHandler
    \/ LifeOnShutdown
    \/ LifeContinuation

SpecLife == LifeInit /\ [][LifeNext]_vars

SpecLifeLive ==
    /\ SpecLife
    /\ WF_vars(LifeDeadlineExpires)
    /\ WF_vars(LifeDeadlineHandler)
    /\ WF_vars(LifeWriteHandler)
    /\ WF_vars(LifeOnShutdown)
    /\ WF_vars(LifeOnData)

\* C40: no continuation touches a connection_t after it was closed: a late
\* reply is never written to a stream that is closed or being shut down,
\* the connection object is never used after its last owner released it,
\* and the socket of a connection is closed once, not twice.
C40_NoTouchAfterClose ==
    /\ ~life.uaf
    /\ life.late_writes = 0
    /\ life.closes <= 1

(* A connection that was accepted is eventually closed *)
C40_EventuallyClosed ==
    (life.pc = "live") ~> (life.stream = "closed")

(* The deadline closed the connection and the reply came afterwards *)
C40_LateReplyUsesFreed ==
    /\ life.uaf
    /\ life.kind \in DelayedKinds
    /\ life.deadline = "done"

C40_LateReplyWritten ==
    /\ life.late_writes > 0
    /\ ~life.uaf
    /\ life.kind \in DelayedKinds

(* Without a delayed reply: the deadline had expired when it was cancelled *)
C40_ClosedTwicePlain ==
    /\ life.kind = "plain"
    /\ life.closes = 2

=============================================================================
